---- MODULE Spec2Model ----
(***************************************************************************)
(* PingGo: the probe scheduler (monitor.Service), the control surface      *)
(* (socket and REST handlers), the heartbeat write buffer, the trigger     *)
(* notification worker and the hourly/daily aggregator, as state machines. *)
(*                                                                         *)
(* Three specifications share the variables:                               *)
(*   SpecSched  scheduler + control surface + write buffer                 *)
(*   SpecNotif  trigger notification worker                                *)
(*   SpecAgg    aggregator (hourly worker and ForceAggregation)            *)
(*   SpecCalls  operations whose answer depends on their arguments alone   *)
(***************************************************************************)
EXTENDS Integers, Sequences, FiniteSets, TLC

VARIABLES
    now,                \* wall clock, in ticks (TicksPerHour ticks to the hour)
    dbMon,              \* monitors table: id -> row
    monitors,           \* Service.monitors: id -> in-memory *model.Monitor
    tickers,            \* Service.tickers: id -> goroutine owning the ticker, 0 = no entry
    stopChans,          \* Service.stopChans: id -> goroutine owning the channel, 0 = no entry
    stoppedMonitors,    \* Service.stoppedMonitors: set of ids marked true
    notificationStates, \* Service.notificationStates: <<rule, monitor>> -> state
    gor,                \* monitor goroutines started by StartMonitor
    chClosed,           \* per goroutine: its stop channel has been closed
    tkStopped,          \* per goroutine: its ticker has been stopped
    hand,               \* control-surface handlers in flight
    hbChan,             \* heartbeatBuffer.buffer (channel)
    batch,              \* runHeartbeatBuffer's batch
    heartbeats,         \* heartbeats table (raw tier)
    hourly,             \* heartbeats_hourly table
    daily,              \* heartbeats_daily table
    checkResultChannel, \* Service.checkResultChannel
    rules,              \* notifications table: the trigger rules
    notifW,             \* runNotificationWorker: its position and locals
    emitted,            \* the mail sent by the worker's latest rule step, if any
    runs,               \* history: per pair, the results processed since arming
    published,          \* history: number of results offered to the channel
    deleteDone,         \* history: ids whose delete handler has returned
    lastOp,             \* history: per id, the last call a handler made on the service
    agg,                \* the aggregation passes: StartAggregationJob and ForceAggregation
    retention,          \* config.GlobalConfig.Retention
    aggHist,            \* history of the aggregation passes
    probes,             \* history: number of probes started
    dropped,            \* history: the kinds of message a full channel made Check drop
    shut,               \* database.Close: its position, the writer goroutine and the store
    monRows,            \* monitors table with its names: the rows in insertion order
    calls,              \* control-surface requests that read and write the names
    sched,              \* the scheduler as those requests see it: tickers and states
    life,               \* the scheduler's maps and channels under Start, Stop and Shutdown calls
    req                 \* a call answered from its arguments alone, with its answer

notifVars == <<rules, notifW, emitted, runs, published>>

aggVars == <<agg, retention, aggHist>>

ctlVars == <<monRows, calls, sched, life>>

\* what the aggregator neither reads nor writes, the monitors table apart
svcVars == <<monitors, tickers, stopChans, stoppedMonitors, notificationStates, gor,
             chClosed, tkStopped, hand, hbChan, batch, checkResultChannel, deleteDone,
             lastOp, probes>>

vars == <<now, dbMon, monitors, tickers, stopChans, stoppedMonitors,
          notificationStates, gor, chClosed, tkStopped, hand, hbChan, batch,
          heartbeats, hourly, daily, checkResultChannel, deleteDone, lastOp,
          probes, dropped, shut, ctlVars, notifVars, aggVars, req>>

----------------------------------------------------------------------------
(* Program constants                                                       *)

StatusDown == 0
StatusUp == 1
StatusPending == 2
HoursPerDay == 24
DefaultRawHours == 24
DefaultHourlyDays == 7
DefaultDailyDays == 365

(* Bounds of the model                                                     *)

MaxGoroutines == 2      \* monitor goroutines alive at once
MaxHandlers == 1        \* control-surface requests in flight at once
MaxProbes == 2          \* probes started in a run
MaxResults == 7         \* results offered to the notification worker in a run
MaxRetries == 3         \* largest max_retries a rule is given
MaxRetriesRecovery == 2 \* largest max_retries_recovery a rule is given
HeartbeatBufferSize == 1  \* capacity of heartbeatBuffer.buffer (1000 in the program)
HeartbeatBatchSize == 2   \* batch size of the writer (100 in the program)
CheckResultCap == 1       \* capacity of checkResultChannel (1000 in the program)
TicksPerHour == 1       \* clock ticks to the hour
StartHour == 23         \* hour of day 0 at which the process starts
MaxTicks == 2           \* clock ticks in a run
MaxFlushes == 1         \* batches the writer flushes in a run (aggregator)
MaxForceCalls == 2      \* ForceAggregation calls in a run
MaxFailures == 1        \* failed inserts of aggregate rows in a run
MaxChans == 3           \* stop channels StartMonitor may come to make
MaxSamples == 3         \* raw rows of one hour handed to an aggregation call

MonitorIds == {1}
RuleIds == {1}
Pairs == RuleIds \X MonitorIds
GIds == 1..MaxGoroutines
HIds == 1..MaxHandlers

----------------------------------------------------------------------------
(* Scheduler: monitor.Service                                              *)

NoMonitor == [present |-> FALSE, active |-> 0, status |-> StatusPending]
NoRow == [state |-> "absent", active |-> 0, status |-> StatusPending]
FreeG == [pc |-> "free", mon |-> 0, tick |-> FALSE, act |-> 0, st |-> StatusPending,
          dur |-> 0, at |-> 0]
\* database.Init has run: the writer waits in its select, the buffer is set, the
\* store is open; accepted lists the heartbeats the channel took before Close
Running == [pc |-> "up", writer |-> "select", accepted |-> <<>>]

Clients == {1, 2}

LifeIds == {1, 2}

\* no handler of the client is running
IdleCall == [op |-> "idle", pc |-> "idle", name |-> "", id |-> 0, active |-> 0,
             old |-> 0, items |-> <<>>, ack |-> "none"]

\* NewService: no ticker, no NotificationState, no stopped flag; started counts the
\* tickers StartMonitor has created
NoSched == [tickers |-> {}, states |-> {}, stopped |-> {}, started |-> 0]

\* NewService: empty maps, the worker's stop channel open; closes counts the close
\* calls on each stop channel made, sd is the position of a Shutdown call
NewLife == [monitors |-> [i \in LifeIds |-> "absent"], tickers |-> {},
            stopChans |-> [i \in LifeIds |-> 0], stoppedMonitors |-> {},
            closes |-> [c \in 1..MaxChans |-> 0], made |-> 0,
            workerStopped |-> FALSE, workerCloses |-> 0, sd |-> "idle"]

IdleH == [op |-> "idle", pc |-> "idle", id |-> 0, old |-> 0, act |-> 0,
          status |-> StatusPending]

FreeSlots == {g \in GIds : gor[g].pc = "free"}

\* The goroutine pcs inside Service.Check
CheckPcs == {"check", "loaded", "probing", "probed", "written"}

\* an absent entry of notificationStates
NoState == [present |-> FALSE, cf |-> 0, cs |-> 0, last |-> StatusPending]

\* delete every key of notificationStates with the suffix _{id}
DropStates(ns, id) == [k \in DOMAIN ns |-> IF k[2] = id THEN NoState ELSE ns[k]]

\* close(stopChan) and ticker.Stop() of the entries StartMonitor / StopMonitor find
CloseStop(id) == IF stopChans[id] # 0
                 THEN [chClosed EXCEPT ![stopChans[id]] = TRUE] ELSE chClosed
StopTicker(id) == IF tickers[id] # 0
                  THEN [tkStopped EXCEPT ![tickers[id]] = TRUE] ELSE tkStopped

\* Service.StopMonitor(id), under s.mu
StopMonitor(id) ==
    IF id \in stoppedMonitors
    THEN UNCHANGED <<monitors, tickers, stopChans, stoppedMonitors,
                     notificationStates, chClosed, tkStopped>>
    ELSE /\ chClosed' = CloseStop(id)
         /\ tkStopped' = StopTicker(id)
         /\ stopChans' = [stopChans EXCEPT ![id] = 0]
         /\ tickers' = [tickers EXCEPT ![id] = 0]
         /\ monitors' = [monitors EXCEPT ![id] = NoMonitor]
         /\ notificationStates' = DropStates(notificationStates, id)
         /\ stoppedMonitors' = stoppedMonitors \cup {id}

\* the goroutine StartMonitor spawns: "Run immediately once"
Spawned(id) == [FreeG EXCEPT !.pc = "check", !.mon = id]

\* the slot of the next goroutine
NextSlot == IF FreeSlots = {} THEN 0 ELSE CHOOSE g \in FreeSlots : \A x \in FreeSlots : g <= x

\* Service.StartMonitor(m), under s.mu; g is the goroutine it spawns when m is active
StartMonitor(id, active, status, g) ==
    /\ stoppedMonitors' = stoppedMonitors \ {id}
    /\ monitors' = [monitors EXCEPT ![id] =
                      [present |-> TRUE, active |-> active, status |-> status]]
    /\ UNCHANGED notificationStates
    /\ IF active # 1
       THEN /\ chClosed' = CloseStop(id)
            /\ tkStopped' = StopTicker(id)
            /\ stopChans' = [stopChans EXCEPT ![id] = 0]
            /\ tickers' = [tickers EXCEPT ![id] = 0]
            /\ UNCHANGED gor
       ELSE /\ g \in FreeSlots
            /\ chClosed' = [CloseStop(id) EXCEPT ![g] = FALSE]
            /\ tkStopped' = [StopTicker(id) EXCEPT ![g] = FALSE]
            /\ stopChans' = [stopChans EXCEPT ![id] = g]
            /\ tickers' = [tickers EXCEPT ![id] = g]
            /\ gor' = [gor EXCEPT ![g] = Spawned(id)]

----------------------------------------------------------------------------
(* The monitor goroutine of StartMonitor and Service.Check                 *)

\* what a probe can return: (status, duration); a hard failure has duration 0
ProbeOutcomes == {[st |-> StatusUp, dur |-> 1], [st |-> StatusDown, dur |-> 0],
                  [st |-> StatusDown, dur |-> 1]}

\* the ticker of goroutine g delivers a tick (ticker.C holds one tick)
Tick(g) ==
    /\ gor[g].pc # "free"
    /\ ~tkStopped[g]
    /\ ~gor[g].tick
    /\ gor' = [gor EXCEPT ![g].tick = TRUE]
    /\ UNCHANGED <<req, shut, ctlVars, dropped, now, aggVars, lastOp, notifVars, dbMon, monitors, tickers, stopChans, stoppedMonitors,
                   notificationStates, chClosed, tkStopped, hand, hbChan, batch,
                   heartbeats, hourly, daily, checkResultChannel, deleteDone, probes>>

\* select: case <-ticker.C
SelectTick(g) ==
    /\ gor[g].pc = "select"
    /\ gor[g].tick
    /\ gor' = [gor EXCEPT ![g].tick = FALSE, ![g].pc = "check"]
    /\ UNCHANGED <<req, shut, ctlVars, dropped, now, aggVars, lastOp, notifVars, dbMon, monitors, tickers, stopChans, stoppedMonitors,
                   notificationStates, chClosed, tkStopped, hand, hbChan, batch,
                   heartbeats, hourly, daily, checkResultChannel, deleteDone, probes>>

\* select: case <-stopChan: the goroutine returns
SelectStop(g) ==
    /\ gor[g].pc = "select"
    /\ chClosed[g]
    /\ gor' = [gor EXCEPT ![g] = FreeG]
    /\ UNCHANGED <<req, shut, ctlVars, dropped, now, aggVars, lastOp, notifVars, dbMon, monitors, tickers, stopChans, stoppedMonitors,
                   notificationStates, chClosed, tkStopped, hand, hbChan, batch,
                   heartbeats, hourly, daily, checkResultChannel, deleteDone, probes>>

\* Check: db.DB.First(&m, id); a missing or soft-deleted row returns
CheckLoad(g) ==
    /\ gor[g].pc = "check"
    /\ LET row == dbMon[gor[g].mon]
           probe == row.state = "live" /\ row.active = 1 IN
       /\ probe => probes < MaxProbes
       /\ gor' = [gor EXCEPT ![g].pc = IF row.state # "live" THEN "select"
                                       ELSE IF row.active # 1 THEN "loaded"
                                       ELSE "probing",
                             ![g].act = IF row.state = "live" THEN row.active ELSE 0]
       /\ probes' = IF probe THEN probes + 1 ELSE probes
    /\ UNCHANGED <<req, shut, ctlVars, dropped, now, aggVars, lastOp, notifVars, dbMon, monitors, tickers, stopChans, stoppedMonitors,
                   notificationStates, chClosed, tkStopped, hand, hbChan, batch,
                   heartbeats, hourly, daily, checkResultChannel, deleteDone>>

\* Check: if m.Active != 1 { s.StopMonitor(m.ID); return }
CheckInactive(g) ==
    /\ gor[g].pc = "loaded"
    /\ StopMonitor(gor[g].mon)
    /\ gor' = [gor EXCEPT ![g].pc = "select", ![g].act = 0]
    /\ UNCHANGED <<req, shut, ctlVars, dropped, now, aggVars, lastOp, notifVars, dbMon, hand, hbChan, batch, heartbeats, hourly, daily,
                   checkResultChannel, deleteDone, probes>>

\* Check: the probe returns
ProbeDone(g) ==
    /\ gor[g].pc = "probing"
    /\ \E o \in ProbeOutcomes :
          gor' = [gor EXCEPT ![g].pc = "probed", ![g].st = o.st, ![g].dur = o.dur]
    /\ UNCHANGED <<req, shut, ctlVars, dropped, now, aggVars, lastOp, notifVars, dbMon, monitors, tickers, stopChans, stoppedMonitors,
                   notificationStates, chClosed, tkStopped, hand, hbChan, batch,
                   heartbeats, hourly, daily, checkResultChannel, deleteDone, probes>>

\* the readings of the clock taken so far for m.LastCheck = time.Now(): one by each
\* probe that has returned (a later reading is a later instant)
ClockReads == probes - Cardinality({g \in GIds : gor[g].pc \in {"probing", "probed"}})

\* an update that writes every column of the row from the struct Check loaded
SaveLoaded(row, g) == [row EXCEPT !.status = gor[g].st, !.active = gor[g].act]

\* Select("Status", "Message", "LastCheck").Updates(&m): the row with those columns set
UpdateSelected(row, g) == [row EXCEPT !.status = gor[g].st]

\* Check: m.LastCheck = time.Now(); Select("Status", "Message", "LastCheck").Updates(&m)
CheckUpdateRow(g) ==
    /\ gor[g].pc = "probed"
    /\ dbMon' = IF dbMon[gor[g].mon].state = "live"
                THEN [dbMon EXCEPT ![gor[g].mon] = UpdateSelected(@, g)]
                ELSE dbMon
    /\ gor' = [gor EXCEPT ![g].pc = "written", ![g].at = ClockReads + 1]
    /\ UNCHANGED <<req, shut, ctlVars, dropped, now, aggVars, lastOp, notifVars, monitors, tickers, stopChans, stoppedMonitors,
                   notificationStates, chClosed, tkStopped, hand, hbChan, batch,
                   heartbeats, hourly, daily, checkResultChannel, deleteDone, probes>>

\* a buffer that takes every heartbeat, full or not
AddHeartbeatAlways(ch, h) == Append(ch, h)

\* db.AddHeartbeat: a non-blocking send, dropped when the buffer is full
AddHeartbeat(ch, h) == IF Len(ch) < HeartbeatBufferSize THEN Append(ch, h) ELSE ch

\* the kinds of message that the two sends of Check find no room for
Drops == (IF Len(hbChan) < HeartbeatBufferSize THEN {} ELSE {"heartbeat"})
         \cup (IF Len(checkResultChannel) < CheckResultCap THEN {} ELSE {"result"})

\* Check: db.AddHeartbeat(&heartbeat), then the non-blocking send
\*   select { case s.checkResultChannel <- result: default: drop }
\* (two sends that never block and that no other step of Check follows)
CheckPublish(g) ==
    /\ gor[g].pc = "written"
    /\ hbChan' = AddHeartbeat(hbChan, [monitor_id |-> gor[g].mon, time |-> now,
                                       at |-> gor[g].at,
                                       status |-> gor[g].st, duration |-> gor[g].dur])
    /\ checkResultChannel' =
          IF Len(checkResultChannel) < CheckResultCap
          THEN Append(checkResultChannel, [monitor_id |-> gor[g].mon, status |-> gor[g].st])
          ELSE checkResultChannel
    /\ gor' = [gor EXCEPT ![g].pc = "select", ![g].act = 0,
                          ![g].st = StatusPending, ![g].dur = 0, ![g].at = 0]
    /\ dropped' = dropped \cup Drops
    /\ UNCHANGED <<req, shut, ctlVars, now, aggVars, lastOp, notifVars, dbMon, monitors, tickers, stopChans, stoppedMonitors,
                   notificationStates, chClosed, tkStopped, hand, batch,
                   heartbeats, hourly, daily, deleteDone, probes>>

----------------------------------------------------------------------------
(* The heartbeat writer: runHeartbeatBuffer                                *)

\* flushHeartbeats: CreateInBatches, which fails once the store is closed
flushHeartbeats(b) == IF shut.pc = "closed" THEN heartbeats ELSE heartbeats \o b

\* the writer after an iteration of its loop: back in the select while the buffer
\* is set, at the head of the loop once FlushHeartbeatBuffer has unset it
NextIteration == IF shut.pc = "up" THEN shut ELSE [shut EXCEPT !.writer = "loop"]

\* case h := <-heartbeatBuffer.buffer: append, flush a full batch
WriterRecv ==
    /\ shut.writer = "select"
    /\ hbChan # <<>>
    /\ hbChan' = Tail(hbChan)
    /\ LET b == Append(batch, Head(hbChan)) IN
       IF Len(b) >= HeartbeatBatchSize
       THEN heartbeats' = flushHeartbeats(b) /\ batch' = <<>>
       ELSE batch' = b /\ UNCHANGED heartbeats
    /\ shut' = NextIteration
    /\ UNCHANGED <<req, ctlVars, dropped, now, aggVars, lastOp, notifVars, dbMon, monitors, tickers, stopChans, stoppedMonitors,
                   notificationStates, gor, chClosed, tkStopped, hand,
                   hourly, daily, checkResultChannel, deleteDone, probes>>

\* case <-ticker.C: flush a non-empty batch
WriterTick ==
    /\ shut.writer = "select"
    /\ batch # <<>>
    /\ heartbeats' = flushHeartbeats(batch)
    /\ batch' = <<>>
    /\ shut' = NextIteration
    /\ UNCHANGED <<req, ctlVars, dropped, now, aggVars, lastOp, notifVars, dbMon, monitors, tickers, stopChans, stoppedMonitors,
                   notificationStates, gor, chClosed, tkStopped, hand, hbChan,
                   hourly, daily, checkResultChannel, deleteDone, probes>>

----------------------------------------------------------------------------
(* Control surface: socket handlers add, edit, toggleActive, deleteMonitor *)
(* and the REST handler deleteMonitorAPI                                   *)

AbsentIds == {i \in MonitorIds : dbMon[i].state = "absent"}

\* rows of a table that are not of monitor id
WithoutMonitor(t, id) == SelectSeq(t, LAMBDA r : r.monitor_id # id)

\* add: db.DB.Create(&m) with Active 1 and Status PENDING
AddBegin(h) ==
    /\ hand[h].pc = "idle"
    /\ AbsentIds # {}
    /\ LET id == CHOOSE i \in AbsentIds : \A j \in AbsentIds : i <= j IN
       /\ dbMon' = [dbMon EXCEPT ![id] =
                      [state |-> "live", active |-> 1, status |-> StatusPending]]
       /\ hand' = [hand EXCEPT ![h] = [op |-> "add", pc |-> "svc", id |-> id,
                                       old |-> 0, act |-> 1, status |-> StatusPending]]
    /\ UNCHANGED <<req, shut, ctlVars, dropped, now, aggVars, lastOp, notifVars, monitors, tickers, stopChans, stoppedMonitors,
                   notificationStates, gor, chClosed, tkStopped, hbChan, batch,
                   heartbeats, hourly, daily, checkResultChannel, deleteDone, probes>>

\* edit: db.DB.First(&m, id), then the fields of the request are set on m
EditBegin(h) ==
    /\ hand[h].pc = "idle"
    /\ \E id \in MonitorIds, act \in {0, 1} :
          /\ dbMon[id].state = "live"
          /\ hand' = [hand EXCEPT ![h] = [op |-> "edit", pc |-> "save", id |-> id,
                                          old |-> dbMon[id].active, act |-> act,
                                          status |-> dbMon[id].status]]
    /\ UNCHANGED <<req, shut, ctlVars, dropped, now, aggVars, lastOp, notifVars, dbMon, monitors, tickers, stopChans, stoppedMonitors,
                   notificationStates, gor, chClosed, tkStopped, hbChan, batch,
                   heartbeats, hourly, daily, checkResultChannel, deleteDone, probes>>

\* toggleActive: db.DB.First(&m, id); m.Active = newActive
ToggleBegin(h) ==
    /\ hand[h].pc = "idle"
    /\ \E id \in MonitorIds, act \in {0, 1} :
          /\ dbMon[id].state = "live"
          /\ hand' = [hand EXCEPT ![h] = [op |-> "toggle", pc |-> "save", id |-> id,
                                          old |-> dbMon[id].active, act |-> act,
                                          status |-> dbMon[id].status]]
    /\ UNCHANGED <<req, shut, ctlVars, dropped, now, aggVars, lastOp, notifVars, dbMon, monitors, tickers, stopChans, stoppedMonitors,
                   notificationStates, gor, chClosed, tkStopped, hbChan, batch,
                   heartbeats, hourly, daily, checkResultChannel, deleteDone, probes>>

\* edit, toggleActive: db.DB.Save(&m) writes every column of the row from m
HandSave(h) ==
    /\ hand[h].pc = "save"
    /\ dbMon' = [dbMon EXCEPT ![hand[h].id] =
                   [state |-> "live", active |-> hand[h].act, status |-> hand[h].status]]
    /\ hand' = [hand EXCEPT ![h].pc = "svc"]
    /\ UNCHANGED <<req, shut, ctlVars, dropped, now, aggVars, lastOp, notifVars, monitors, tickers, stopChans, stoppedMonitors,
                   notificationStates, gor, chClosed, tkStopped, hbChan, batch,
                   heartbeats, hourly, daily, checkResultChannel, deleteDone, probes>>

\* add: s.monitorService.StartMonitor(&m)
AddStart(h) ==
    /\ hand[h].pc = "svc" /\ hand[h].op = "add"
    /\ StartMonitor(hand[h].id, hand[h].act, hand[h].status, NextSlot)
    /\ hand' = [hand EXCEPT ![h] = IdleH]
    /\ lastOp' = [lastOp EXCEPT ![hand[h].id] = "start"]
    /\ UNCHANGED <<req, shut, ctlVars, dropped, now, aggVars, notifVars, dbMon, hbChan, batch, heartbeats, hourly, daily,
                   checkResultChannel, deleteDone, probes>>

\* toggleActive: if oldActive != newActive { StopMonitor or StartMonitor }
ToggleSvc(h) ==
    /\ hand[h].pc = "svc" /\ hand[h].op = "toggle"
    /\ IF hand[h].old = hand[h].act
       THEN UNCHANGED <<monitors, tickers, stopChans, stoppedMonitors,
                        notificationStates, gor, chClosed, tkStopped>>
       ELSE IF hand[h].act = 0
       THEN StopMonitor(hand[h].id) /\ UNCHANGED gor
       ELSE StartMonitor(hand[h].id, hand[h].act, hand[h].status, NextSlot)
    /\ hand' = [hand EXCEPT ![h] = IdleH]
    /\ lastOp' = IF hand[h].old = hand[h].act THEN lastOp
               ELSE [lastOp EXCEPT ![hand[h].id] = IF hand[h].act = 0 THEN "stop" ELSE "start"]
    /\ UNCHANGED <<req, shut, ctlVars, dropped, now, aggVars, notifVars, dbMon, hbChan, batch, heartbeats, hourly, daily,
                   checkResultChannel, deleteDone, probes>>

\* edit: if oldActive != m.Active { Stop or Start } else if m.Active == 1 { Stop; Start }
EditSvc(h) ==
    /\ hand[h].pc = "svc" /\ hand[h].op = "edit"
    /\ lastOp' = IF hand[h].old # hand[h].act
               THEN [lastOp EXCEPT ![hand[h].id] = IF hand[h].act = 0 THEN "stop" ELSE "start"]
               ELSE IF hand[h].act = 1 THEN [lastOp EXCEPT ![hand[h].id] = "stop"]
               ELSE lastOp
    /\ IF hand[h].old # hand[h].act
       THEN /\ IF hand[h].act = 0
               THEN StopMonitor(hand[h].id) /\ UNCHANGED gor
               ELSE StartMonitor(hand[h].id, hand[h].act, hand[h].status, NextSlot)
            /\ hand' = [hand EXCEPT ![h] = IdleH]
       ELSE IF hand[h].act = 1
       THEN /\ StopMonitor(hand[h].id) /\ UNCHANGED gor
            /\ hand' = [hand EXCEPT ![h].pc = "restart"]
       ELSE /\ UNCHANGED <<monitors, tickers, stopChans, stoppedMonitors,
                           notificationStates, gor, chClosed, tkStopped>>
            /\ hand' = [hand EXCEPT ![h] = IdleH]
    /\ UNCHANGED <<req, shut, ctlVars, dropped, now, aggVars, notifVars, dbMon, hbChan, batch, heartbeats, hourly, daily,
                   checkResultChannel, deleteDone, probes>>

\* edit of a running monitor: the StartMonitor that follows StopMonitor
EditRestart(h) ==
    /\ hand[h].pc = "restart"
    /\ StartMonitor(hand[h].id, hand[h].act, hand[h].status, NextSlot)
    /\ hand' = [hand EXCEPT ![h] = IdleH]
    /\ lastOp' = [lastOp EXCEPT ![hand[h].id] = "start"]
    /\ UNCHANGED <<req, shut, ctlVars, dropped, now, aggVars, notifVars, dbMon, hbChan, batch, heartbeats, hourly, daily,
                   checkResultChannel, deleteDone, probes>>

\* deleteMonitor (socket) and deleteMonitorAPI (REST): db.DB.Delete(&model.Monitor{}, id)
DeleteBegin(h) ==
    /\ hand[h].pc = "idle"
    /\ \E id \in MonitorIds, op \in {"delete", "restDelete"} :
          /\ dbMon[id].state = "live"
          /\ dbMon' = [dbMon EXCEPT ![id].state = "deleted"]
          /\ hand' = [hand EXCEPT ![h] = [IdleH EXCEPT !.op = op, !.pc = "stop", !.id = id]]
    /\ UNCHANGED <<req, shut, ctlVars, dropped, now, aggVars, lastOp, notifVars, monitors, tickers, stopChans, stoppedMonitors,
                   notificationStates, gor, chClosed, tkStopped, hbChan, batch,
                   heartbeats, hourly, daily, checkResultChannel, deleteDone, probes>>

\* both delete handlers: s.monitorService.StopMonitor(id); the REST handler returns here
DeleteStop(h) ==
    /\ hand[h].pc = "stop"
    /\ StopMonitor(hand[h].id)
    /\ lastOp' = [lastOp EXCEPT ![hand[h].id] = "stop"]
    /\ IF hand[h].op = "restDelete"
       THEN /\ hand' = [hand EXCEPT ![h] = IdleH]
            /\ deleteDone' = deleteDone \cup {hand[h].id}
       ELSE /\ hand' = [hand EXCEPT ![h].pc = "tiers"]
            /\ UNCHANGED deleteDone
    /\ UNCHANGED <<req, shut, ctlVars, dropped, now, aggVars, notifVars, dbMon, gor, hbChan, batch, heartbeats, hourly, daily,
                   checkResultChannel, probes>>

\* deleteMonitor (socket): the three Delete statements on the heartbeat tiers
DeleteTiers(h) ==
    /\ hand[h].pc = "tiers"
    /\ heartbeats' = WithoutMonitor(heartbeats, hand[h].id)
    /\ hourly' = WithoutMonitor(hourly, hand[h].id)
    /\ daily' = WithoutMonitor(daily, hand[h].id)
    /\ hand' = [hand EXCEPT ![h] = IdleH]
    /\ deleteDone' = deleteDone \cup {hand[h].id}
    /\ UNCHANGED <<req, shut, ctlVars, dropped, now, aggVars, lastOp, notifVars, dbMon, monitors, tickers, stopChans, stoppedMonitors,
                   notificationStates, gor, chClosed, tkStopped, hbChan, batch,
                   checkResultChannel, probes>>

----------------------------------------------------------------------------
(* Notifier: Service.runNotificationWorker and sendTriggerNotification     *)

StarName == 0             \* monitor_name "*": every monitor
OnStatuses == {"change", "down", "up"}
Emails == {"", "op@x"}

\* the monitor names a rule can carry: "*", a monitor's name, a name no monitor has
OtherName == Cardinality(MonitorIds) + 1
RuleTargets == {StarName} \cup MonitorIds \cup {OtherName}

\* the values of max_retries and max_retries_recovery the model draws
RetryValues == 0..MaxRetries
RecoveryValues == 0..MaxRetriesRecovery

RuleConfigs == [monitor_name : RuleTargets, on_status : OnStatuses, email : Emails,
                max_retries : RetryValues, max_retries_recovery : RecoveryValues]

NoEmit == [sent |-> FALSE, rule |-> 0, monitor |-> 0, old |-> StatusPending,
           new |-> StatusPending]
IdleW == [pc |-> "idle", monitor_id |-> 0, status |-> StatusPending, todo |-> <<>>]
NoRun == [armed |-> FALSE, arm |-> StatusPending, seq |-> <<>>, mails |-> {}]

ArmedStateCounting(status) ==
    [present |-> TRUE, cf |-> IF status = StatusDown THEN 1 ELSE 0,
     cs |-> IF status = StatusUp THEN 1 ELSE 0, last |-> status]

\* the state the first observation creates: LastSentStatus: result.Status
ArmedState(status) == [present |-> TRUE, cf |-> 0, cs |-> 0, last |-> status]

\* cfg.MonitorName != "*" && cfg.MonitorName != result.Name: the rule is skipped
NameMatches(cfg, monitor) == cfg.monitor_name = StarName \/ cfg.monitor_name = monitor

\* the ids of a set, in ascending order (the order of the rows the query returns)
RECURSIVE SortedIds(_)
SortedIds(S) == IF S = {} THEN <<>>
                ELSE LET x == CHOOSE y \in S : \A z \in S : y <= z
                     IN <<x>> \o SortedIds(S \ {x})

\* db.DB.Where("type = ? AND active = ?", "trigger", true).Find(&rules)
ActiveRules == LET ids == SortedIds({r \in RuleIds : rules[r].active}) IN
               [i \in 1..Len(ids) |-> [id |-> ids[i], cfg |-> rules[ids[i]].cfg]]

\* thresholdDown, thresholdUp: 0 (or less) is treated as 1
ThresholdDown(cfg) == IF cfg.max_retries <= 0 THEN 1 ELSE cfg.max_retries
ThresholdUp(cfg) == IF cfg.max_retries_recovery <= 0 THEN 1 ELSE cfg.max_retries_recovery

CountedNoReset(state, status) ==
    IF status = StatusDown
    THEN [state EXCEPT !.cf = @ + 1]
    ELSE IF status = StatusUp
    THEN [state EXCEPT !.cs = @ + 1]
    ELSE state

\* "Update Counters": only DOWN and UP count
Counted(state, status) ==
    IF status = StatusDown
    THEN [state EXCEPT !.cf = @ + 1, !.cs = 0]
    ELSE IF status = StatusUp
    THEN [state EXCEPT !.cs = @ + 1, !.cf = 0]
    ELSE state

\* newStatusToSend: the hard status after the counters are updated
NewStatusToSend(state, cfg, status) ==
    IF status = StatusDown /\ state.cf >= ThresholdDown(cfg) THEN StatusDown
    ELSE IF status = StatusUp /\ state.cs >= ThresholdUp(cfg) THEN StatusUp
    ELSE state.last

ShouldNotifyAnyChange(cfg, new) ==
    \/ cfg.on_status = "change"
    \/ cfg.on_status = "down"
    \/ cfg.on_status = "up" /\ new = StatusUp

\* shouldNotify, once the hard status has changed
ShouldNotify(cfg, new) ==
    \/ cfg.on_status = "change"
    \/ cfg.on_status = "down" /\ new = StatusDown
    \/ cfg.on_status = "up" /\ new = StatusUp

\* sendTriggerNotification(email, ..., oldStatus, newStatus, ...): no recipient, no mail
SendTriggerNotification(cfg, rule, monitor, old, new) ==
    IF cfg.email = "" THEN NoEmit
    ELSE [sent |-> TRUE, rule |-> rule, monitor |-> monitor, old |-> old, new |-> new]

\* Check's publish as the worker sees it: a result offered to the channel
PublishResult ==
    /\ published < MaxResults
    /\ \E m \in MonitorIds, st \in {StatusDown, StatusUp} :
          checkResultChannel' =
             IF Len(checkResultChannel) < CheckResultCap
             THEN Append(checkResultChannel, [monitor_id |-> m, status |-> st])
             ELSE checkResultChannel
    /\ published' = published + 1
    /\ dropped' = dropped \cup (Drops \ {"heartbeat"})
    /\ UNCHANGED <<req, shut, ctlVars, now, aggVars, lastOp, dbMon, monitors, tickers, stopChans, stoppedMonitors,
                   notificationStates, gor, chClosed, tkStopped, hand, hbChan, batch,
                   heartbeats, hourly, daily, deleteDone, probes,
                   rules, notifW, emitted, runs>>

\* case result := <-s.checkResultChannel, and the query of the active trigger rules
NotifRecv ==
    /\ notifW.pc = "idle"
    /\ checkResultChannel # <<>>
    /\ checkResultChannel' = Tail(checkResultChannel)
    /\ notifW' = IF Len(ActiveRules) = 0 THEN IdleW
                 ELSE [pc |-> "rules", monitor_id |-> Head(checkResultChannel).monitor_id,
                       status |-> Head(checkResultChannel).status, todo |-> ActiveRules]
    /\ UNCHANGED <<req, shut, ctlVars, dropped, now, aggVars, lastOp, dbMon, monitors, tickers, stopChans, stoppedMonitors,
                   notificationStates, gor, chClosed, tkStopped, hand, hbChan, batch,
                   heartbeats, hourly, daily, deleteDone, probes,
                   rules, emitted, runs, published>>

\* one iteration of "for _, rule := range rules"
NotifRule ==
    /\ notifW.pc = "rules"
    /\ LET rule == Head(notifW.todo)
           cfg == rule.cfg
           key == <<rule.id, notifW.monitor_id>>
           state == notificationStates[key]
           counted == Counted(state, notifW.status)
           new == NewStatusToSend(counted, cfg, notifW.status)
           rest == Tail(notifW.todo)
       IN
       /\ notifW' = IF rest = <<>> THEN IdleW ELSE [notifW EXCEPT !.todo = rest]
       /\ IF ~NameMatches(cfg, notifW.monitor_id)
          THEN \* the rule is for another monitor: continue
               /\ emitted' = NoEmit
               /\ UNCHANGED <<notificationStates, runs>>
          ELSE IF ~state.present
          THEN \* first observation: arm, no notification
               /\ notificationStates' = [notificationStates EXCEPT ![key] =
                      ArmedState(notifW.status)]
               /\ emitted' = NoEmit
               /\ runs' = [runs EXCEPT ![key] =
                      [armed |-> TRUE, arm |-> notifW.status, seq |-> <<>>, mails |-> {}]]
          ELSE /\ notificationStates' = [notificationStates EXCEPT ![key] =
                      [counted EXCEPT !.last = new]]
               /\ emitted' = IF new # state.last /\ ShouldNotify(cfg, new)
                             THEN SendTriggerNotification(cfg, rule.id,
                                     notifW.monitor_id, new, new)
                             ELSE NoEmit
               /\ runs' = [runs EXCEPT ![key].seq = Append(@, notifW.status),
                                       ![key].mails = IF emitted'.sent
                                                      THEN @ \cup {Len(runs[key].seq) + 1}
                                                      ELSE @]
    /\ UNCHANGED <<req, shut, ctlVars, dropped, now, aggVars, lastOp, dbMon, monitors, tickers, stopChans, stoppedMonitors,
                   gor, chClosed, tkStopped, hand, hbChan, batch,
                   heartbeats, hourly, daily, checkResultChannel, deleteDone, probes,
                   rules, published>>

\* toggleNotification: n.Active = !n.Active
ToggleNotification(r) ==
    /\ rules' = [rules EXCEPT ![r].active = ~@]
    /\ UNCHANGED <<req, shut, ctlVars, dropped, now, aggVars, lastOp, dbMon, monitors, tickers, stopChans, stoppedMonitors,
                   notificationStates, gor, chClosed, tkStopped, hand, hbChan, batch,
                   heartbeats, hourly, daily, checkResultChannel, deleteDone, probes,
                   notifW, emitted, runs, published>>

\* Service.ResetNotificationStateByMonitor(monitorID), under s.mu
ResetNotificationStateByMonitor(id) ==
    /\ \E k \in Pairs : k[2] = id /\ notificationStates[k].present
    /\ notificationStates' = DropStates(notificationStates, id)
    /\ UNCHANGED <<req, shut, ctlVars, dropped, now, aggVars, lastOp, dbMon, monitors, tickers, stopChans, stoppedMonitors,
                   gor, chClosed, tkStopped, hand, hbChan, batch,
                   heartbeats, hourly, daily, checkResultChannel, deleteDone, probes,
                   notifVars>>

----------------------------------------------------------------------------
(* Aggregator: StartAggregationJob, runAggregation, ForceAggregation       *)

Procs == {"worker", "force"}

TicksPerDay == HoursPerDay * TicksPerHour

\* now.Truncate(time.Hour), now.Truncate(24 * time.Hour)
TruncateHour(t) == (t \div TicksPerHour) * TicksPerHour
TruncateDay(t) == (t \div TicksPerDay) * TicksPerDay

\* the retention settings the model draws: 0 is "not configured"
RetentionConfigs == [raw_hours : {0}, hourly_days : {0}, daily_days : {0, 1}]

IdleAgg == [pc |-> "idle", from |-> 0, to |-> 0, todo |-> <<>>, nextTick |-> 0,
            tick |-> FALSE]

\* StartAggregationJob: the ticker is created, then runAggregation runs at once
StartedWorker(t) == [IdleAgg EXCEPT !.pc = "hourly", !.nextTick = t + TicksPerHour]

NoCall == [done |-> FALSE, hour |-> 0, quiet |-> FALSE, created |-> {}, failed |-> FALSE,
           alone |-> FALSE, second |-> FALSE, first |-> {}, firstFailed |-> FALSE]

NoHist == [failed |-> {}, passNo |-> 1, flushes |-> 0, failures |-> 0,
           calls |-> 0, call |-> NoCall]

\* DB.Model(&model.Monitor{}).Pluck("id", &monitorIDs): soft-deleted rows are left out
MonitorIDs == SortedIds({i \in MonitorIds : dbMon[i].state = "live"})

HourlyCountNone(m, h) == 0

\* Count of hourly rows WHERE monitor_id = ? AND hour = ?
HourlyCount(m, h) == Len(SelectSeq(hourly, LAMBDA r : r.monitor_id = m /\ r.hour = h))

\* Count of daily rows WHERE monitor_id = ? AND date = ?
DailyCount(m, d) == Len(SelectSeq(daily, LAMBDA r : r.monitor_id = m /\ r.date = d))

\* heartbeats WHERE monitor_id = ? AND time >= ? AND time < ?
RawWindow(m, from, to) ==
    SelectSeq(heartbeats, LAMBDA r : r.monitor_id = m /\ r.time >= from /\ r.time < to)

\* hourly rows WHERE monitor_id = ? AND hour >= ? AND hour < ?
HourlyWindow(m, from, to) ==
    SelectSeq(hourly, LAMBDA r : r.monitor_id = m /\ r.hour >= from /\ r.hour < to)

\* SUM(CASE WHEN status = ? THEN 1 ELSE 0 END)
RECURSIVE CountStatus(_, _)
CountStatus(rows, st) ==
    IF rows = <<>> THEN 0
    ELSE (IF Head(rows).status = st THEN 1 ELSE 0) + CountStatus(Tail(rows), st)

RECURSIVE SumAllDuration(_)
SumAllDuration(rows) ==
    IF rows = <<>> THEN 0
    ELSE Head(rows).duration + SumAllDuration(Tail(rows))

\* COALESCE(SUM(CASE WHEN status = 1 THEN duration ELSE 0 END), 0)
RECURSIVE SumUpDuration(_)
SumUpDuration(rows) ==
    IF rows = <<>> THEN 0
    ELSE (IF Head(rows).status = StatusUp THEN Head(rows).duration ELSE 0)
         + SumUpDuration(Tail(rows))

\* COALESCE(MIN(CASE WHEN status = 1 THEN duration ELSE NULL END), 0), and MAX
UpDurations(rows) == {rows[i].duration : i \in {j \in DOMAIN rows : rows[j].status = StatusUp}}
MinOf(S) == IF S = {} THEN 0 ELSE CHOOSE x \in S : \A y \in S : x <= y
MaxOf(S) == IF S = {} THEN 0 ELSE CHOOSE x \in S : \A y \in S : x >= y

\* COALESCE(SUM(column), 0) over hourly rows
RECURSIVE SumField(_, _)
SumField(rows, f) ==
    IF rows = <<>> THEN 0 ELSE Head(rows)[f] + SumField(Tail(rows), f)

\* uptime and avgDuration of an aggregate
Uptime(up, total) == IF total > 0 THEN (up * 10000) \div total ELSE 0
AvgDuration(sum, up) == IF up > 0 THEN sum \div up ELSE 0

\* aggregateHourly: the AggResult of the raw rows of [from, to)
HourlyResult(rows) ==
    [up_count |-> CountStatus(rows, StatusUp),
     down_count |-> CountStatus(rows, StatusDown),
     total_count |-> Len(rows),
     sum_duration |-> SumUpDuration(rows),
     min_duration |-> MinOf(UpDurations(rows)),
     max_duration |-> MaxOf(UpDurations(rows))]

\* aggregateDaily: the AggResult of the hourly rows of [yesterday, today)
DailyResult(rows) ==
    [up_count |-> SumField(rows, "up_count"),
     down_count |-> SumField(rows, "down_count"),
     total_count |-> SumField(rows, "total_count"),
     sum_duration |-> SumField(rows, "sum_duration"),
     min_duration |-> MinOf({rows[i].min_duration : i \in DOMAIN rows}),
     max_duration |-> MaxOf({rows[i].max_duration : i \in DOMAIN rows})]

\* model.HeartbeatHourly{...} and model.HeartbeatDaily{...} built from an AggResult
HourlyRow(m, h, res) ==
    [monitor_id |-> m, hour |-> h, up_count |-> res.up_count,
     down_count |-> res.down_count, total_count |-> res.total_count,
     sum_duration |-> res.sum_duration,
     avg_duration |-> AvgDuration(res.sum_duration, res.up_count),
     min_duration |-> res.min_duration, max_duration |-> res.max_duration,
     uptime |-> Uptime(res.up_count, res.total_count)]

DailyRow(m, d, res) ==
    [monitor_id |-> m, date |-> d, up_count |-> res.up_count,
     down_count |-> res.down_count, total_count |-> res.total_count,
     sum_duration |-> res.sum_duration,
     avg_duration |-> AvgDuration(res.sum_duration, res.up_count),
     min_duration |-> res.min_duration, max_duration |-> res.max_duration,
     uptime |-> Uptime(res.up_count, res.total_count)]

\* cleanupAggregatedData: the retention in force (a value <= 0 takes the default)
RawHours == IF retention.raw_hours <= 0 THEN DefaultRawHours ELSE retention.raw_hours
HourlyDays == IF retention.hourly_days <= 0 THEN DefaultHourlyDays
              ELSE retention.hourly_days
DailyDays == IF retention.daily_days <= 0 THEN DefaultDailyDays ELSE retention.daily_days

\* the monitors of ids that are left after those with a row already: if count > 0 { continue }
RECURSIVE NotAggregated(_, _, _)
NotAggregated(ids, tier, from) ==
    IF ids = <<>> THEN <<>>
    ELSE IF (IF tier = "hourly" THEN HourlyCount(Head(ids), from)
             ELSE DailyCount(Head(ids), from)) > 0
    THEN NotAggregated(Tail(ids), tier, from)
    ELSE ids

\* a row a call created is still in its table, as it was created
RowPresent(c) ==
    IF c.tier = "hourly" THEN \E i \in DOMAIN hourly : hourly[i] = c.row
    ELSE \E i \in DOMAIN daily : daily[i] = c.row

\* what a probe cycle stores: UP after 1 or 2 ms, DOWN after 1 ms
HeartbeatSamples == <<[st |-> StatusUp, dur |-> 1], [st |-> StatusUp, dur |-> 2],
                      [st |-> StatusDown, dur |-> 1]>>

\* the batches the writer flushes, up to the order of their heartbeats
Batches ==
    {b \in UNION {[1..n -> DOMAIN HeartbeatSamples] : n \in 1..HeartbeatBatchSize} :
        \A i \in DOMAIN b : i > 1 => b[i - 1] <= b[i]}

\* flushHeartbeats(batch): the heartbeats of the Checks of this tick reach the raw table
FlushHeartbeats ==
    /\ aggHist.flushes < MaxFlushes
    /\ \E m \in MonitorIds, b \in Batches :
          /\ dbMon[m].state = "live"
          /\ heartbeats' = heartbeats \o
                [i \in DOMAIN b |-> [monitor_id |-> m, time |-> now,
                                     status |-> HeartbeatSamples[b[i]].st,
                                     duration |-> HeartbeatSamples[b[i]].dur]]
    /\ aggHist' = [aggHist EXCEPT !.flushes = @ + 1, !.call.quiet = FALSE]
    /\ UNCHANGED <<req, shut, ctlVars, dropped, now, dbMon, hourly, daily, agg, retention, svcVars, notifVars>>

\* time passes; the worker's ticker fires every hour after its creation
ClockTick ==
    /\ now < StartHour * TicksPerHour + MaxTicks
    /\ now' = now + 1
    /\ agg' = IF now' = agg["worker"].nextTick
              THEN [agg EXCEPT !["worker"].tick = TRUE, !["worker"].nextTick = @ + TicksPerHour]
              ELSE agg
    /\ UNCHANGED <<req, shut, ctlVars, dropped, dbMon, heartbeats, hourly, daily, retention, aggHist, svcVars, notifVars>>

\* StartAggregationJob: case <-ticker.C: runAggregation()
WorkerPass ==
    /\ agg["worker"].pc = "idle"
    /\ agg["worker"].tick
    /\ agg' = [agg EXCEPT !["worker"].pc = "hourly", !["worker"].tick = FALSE]
    /\ aggHist' = [aggHist EXCEPT !.passNo = @ + 1, !.call.alone = FALSE]
    /\ UNCHANGED <<req, shut, ctlVars, dropped, now, dbMon, heartbeats, hourly, daily, retention, svcVars, notifVars>>

\* ForceAggregation() is called
ForceAggregation ==
    /\ agg["force"].pc = "idle"
    /\ aggHist.calls < MaxForceCalls
    /\ agg' = [agg EXCEPT !["force"].pc = "hourly"]
    /\ aggHist' = [aggHist EXCEPT
          !.calls = @ + 1,
          !.call = [done |-> FALSE,
                    hour |-> TruncateHour(now),
                    quiet |-> TRUE,
                    created |-> {},
                    failed |-> FALSE,
                    firstFailed |-> aggHist.call.failed,
                    alone |-> agg["worker"].pc = "idle"
                              /\ (aggHist.call.done => aggHist.call.alone),
                    second |-> /\ aggHist.call.done
                               /\ aggHist.call.hour = TruncateHour(now)
                               /\ aggHist.call.quiet,
                    first |-> {c \in aggHist.call.created : RowPresent(c)}]]
    /\ UNCHANGED <<req, shut, ctlVars, dropped, now, dbMon, heartbeats, hourly, daily, retention, svcVars, notifVars>>

\* a pass goes on to the next monitor that has no row, or to the stage after
Continue(a, ids, create, after) ==
    IF ids = <<>> THEN [a EXCEPT !.todo = <<>>, !.pc = after, !.from = 0, !.to = 0]
    ELSE [a EXCEPT !.todo = ids, !.pc = create]

\* aggregateHourly: the hour to aggregate, the monitors, the count of the first ones
AggregateHourlyBegin(p) ==
    /\ agg[p].pc = "hourly"
    /\ LET to == TruncateHour(now)
           from == to - TicksPerHour
       IN agg' = [agg EXCEPT ![p] =
                    Continue([@ EXCEPT !.from = from, !.to = to],
                             NotAggregated(MonitorIDs, "hourly", from),
                             "hourlyCreate", "daily")]
    /\ UNCHANGED <<req, shut, ctlVars, dropped, now, dbMon, heartbeats, hourly, daily, retention, aggHist, svcVars,
                   notifVars>>

\* aggregateHourly: the aggregate query, then DB.Create(&hourly), which can fail;
\* then the count of the next monitors
AggregateHourlyCreate(p) ==
    /\ agg[p].pc = "hourlyCreate"
    /\ LET m == Head(agg[p].todo)
           res == HourlyResult(RawWindow(m, agg[p].from, agg[p].to))
           row == HourlyRow(m, agg[p].from, res)
       IN
       IF res.total_count = 0
       THEN UNCHANGED <<hourly, aggHist>>
       ELSE \/ /\ hourly' = Append(hourly, row)
               /\ aggHist' = IF p = "force"
                             THEN [aggHist EXCEPT !.call.created =
                                      @ \cup {[tier |-> "hourly", row |-> row]}]
                             ELSE aggHist
            \/ /\ aggHist.failures < MaxFailures
               /\ UNCHANGED hourly
               /\ aggHist' = [aggHist EXCEPT
                     !.failures = @ + 1,
                     !.failed = @ \cup {[monitor_id |-> m, hour |-> agg[p].from,
                                         pass |-> aggHist.passNo]},
                     !.call.failed = @ \/ p = "force"]
    /\ agg' = [agg EXCEPT ![p] =
                  Continue(@, NotAggregated(Tail(agg[p].todo), "hourly", agg[p].from),
                           "hourlyCreate", "daily")]
    /\ UNCHANGED <<req, shut, ctlVars, dropped, now, dbMon, heartbeats, daily, retention, svcVars, notifVars>>

\* aggregateDaily: yesterday, the monitors, the count of the first ones
AggregateDailyBegin(p) ==
    /\ agg[p].pc = "daily"
    /\ LET to == TruncateDay(now)
           from == to - TicksPerDay
       IN agg' = [agg EXCEPT ![p] =
                    Continue([@ EXCEPT !.from = from, !.to = to],
                             NotAggregated(MonitorIDs, "daily", from),
                             "dailyCreate", "cleanup")]
    /\ UNCHANGED <<req, shut, ctlVars, dropped, now, dbMon, heartbeats, hourly, daily, retention, aggHist, svcVars,
                   notifVars>>

\* aggregateDaily: the aggregate query, then DB.Create(&daily), which can fail;
\* then the count of the next monitors
AggregateDailyCreate(p) ==
    /\ agg[p].pc = "dailyCreate"
    /\ LET m == Head(agg[p].todo)
           res == DailyResult(HourlyWindow(m, agg[p].from, agg[p].to))
           row == DailyRow(m, agg[p].from, res)
       IN
       IF res.total_count = 0
       THEN UNCHANGED <<daily, aggHist>>
       ELSE \/ /\ daily' = Append(daily, row)
               /\ aggHist' = IF p = "force"
                             THEN [aggHist EXCEPT !.call.created =
                                      @ \cup {[tier |-> "daily", row |-> row]}]
                             ELSE aggHist
            \/ /\ aggHist.failures < MaxFailures
               /\ UNCHANGED daily
               /\ aggHist' = [aggHist EXCEPT !.failures = @ + 1,
                                             !.call.failed = @ \/ p = "force"]
    /\ agg' = [agg EXCEPT ![p] =
                  Continue(@, NotAggregated(Tail(agg[p].todo), "daily", agg[p].from),
                           "dailyCreate", "cleanup")]
    /\ UNCHANGED <<req, shut, ctlVars, dropped, now, dbMon, heartbeats, hourly, retention, svcVars, notifVars>>

\* cleanupAggregatedData: the three deletes; runAggregation returns
CleanupAggregatedData(p) ==
    /\ agg[p].pc = "cleanup"
    /\ heartbeats' = SelectSeq(heartbeats,
                         LAMBDA r : ~(r.time < now - RawHours * TicksPerHour))
    /\ hourly' = SelectSeq(hourly, LAMBDA r : ~(r.hour < now - HourlyDays * TicksPerDay))
    /\ daily' = SelectSeq(daily, LAMBDA r : ~(r.date < now - DailyDays * TicksPerDay))
    /\ agg' = [agg EXCEPT ![p].pc = "idle"]
    /\ aggHist' = IF p = "force" THEN [aggHist EXCEPT !.call.done = TRUE] ELSE aggHist
    /\ UNCHANGED <<req, shut, ctlVars, dropped, now, dbMon, retention, svcVars, notifVars>>

----------------------------------------------------------------------------
(* Calls answered from their arguments alone                               *)

\* what a call leaves alone
progVars == <<now, dbMon, heartbeats, hourly, daily, svcVars, dropped, shut, ctlVars,
              notifVars, aggVars>>

NoReq == [op |-> "none"]

\* the raw rows one hour can hold, up to the order of the samples
SampleRows ==
    {[i \in DOMAIN b |-> [monitor_id |-> 1, time |-> 0,
                          status |-> HeartbeatSamples[b[i]].st,
                          duration |-> HeartbeatSamples[b[i]].dur]] :
        b \in {c \in UNION {[1..n -> DOMAIN HeartbeatSamples] : n \in 1..MaxSamples} :
                  \A i \in DOMAIN c : i > 1 => c[i - 1] <= c[i]}}

\* aggregateHourly for one monitor: the row built from the raw rows of the hour
AggregateHour ==
    /\ req = NoReq
    /\ \E rows \in SampleRows :
          req' = [op |-> "aggregateHour", rows |-> rows,
                  row |-> HourlyRow(1, 0, HourlyResult(rows))]
    /\ UNCHANGED progVars

\* the answer has been delivered; the next call can be made
Return ==
    /\ req # NoReq
    /\ req' = NoReq
    /\ UNCHANGED progVars

----------------------------------------------------------------------------
(* The interval of a monitor on its way from a request to the row and the   *)
(* ticker                                                                   *)

MinMonitorInterval == 20

\* the interval field of a request: safeMapGetFloat64's (value, ok), or the zero
\* value of a JSON body that leaves it out
IntervalInputs == {[ok |-> FALSE, v |-> 0]}
                      \cup {[ok |-> TRUE, v |-> v] : v \in {0, 5, 9, 10, 15, 19, 20, 60}}

\* the add handler: interval := int(intervalFloat); if m.Interval < 20 { = 20 }
AddInterval(i) == IF i.v < 20 THEN 20 ELSE i.v

\* the edit handler: 60 without the key, then if m.Interval < 20 { = 20 }
EditInterval(i) == LET v == IF i.ok THEN i.v ELSE 60 IN IF v < 20 THEN 20 ELSE v

\* createMonitorAPI: if m.Interval < 20 { = 20 }
CreateInterval(i) == IF i.v < 20 THEN 20 ELSE i.v

\* importMonitorConfig: if newMonitor.Interval < 10 { = 60 }
ImportInterval(i) == IF i.v < 10 THEN 60 ELSE i.v

\* the interval the handler persists (Create or Save of the struct it built)
PersistedInterval(via, i) ==
    CASE via = "add" -> AddInterval(i)
      [] via = "edit" -> EditInterval(i)
      [] via = "create" -> CreateInterval(i)
      [] via = "import" -> ImportInterval(i)

\* db.DB.Create(&m) with Active tagged gorm:"default:1": a zero Active is stored as
\* the default, and the struct handed to Create carries the stored value afterwards
CreatedActive(active) == IF active = 0 THEN 1 ELSE active

\* StartMonitor: nothing for an inactive monitor; otherwise the struct in memory is
\* clamped and time.NewTicker(m.Interval seconds) is started (the row is not written)
TickerOf(active, interval) ==
    IF active # 1 THEN [started |-> FALSE, period |-> 0]
    ELSE [started |-> TRUE,
          period |-> IF interval < MinMonitorInterval THEN MinMonitorInterval ELSE interval]

\* add, edit, REST create or one item of importMonitorConfig, followed by the monitor
\* list the control surface returns (data["interval"] = m.Interval of the row)
SaveMonitor ==
    /\ req = NoReq
    /\ \E via \in {"add", "edit", "create", "import"}, i \in IntervalInputs, active \in {0, 1} :
          LET a == CASE via = "add" -> 1
                     [] via \in {"create", "import"} -> CreatedActive(active)
                     [] OTHER -> active
              p == PersistedInterval(via, i)
          IN req' = [op |-> "saveMonitor", via |-> via, interval |-> i, active |-> a,
                     row |-> [interval |-> p, active |-> a],
                     ticker |-> TickerOf(a, p),
                     listed |-> p]
    /\ UNCHANGED progVars

----------------------------------------------------------------------------
(* Check: the dispatch on the monitor's type and the heartbeat's duration   *)

\* the values of monitors.type: the four constants, the empty string that add and REST
\* create store when the request names no type, and a string that is none of them
MonitorTypeValues == {"http", "ping", "tcp", "dns", "", "udp"}

\* the messages for which Check zeroes the duration of an HTTP probe that ended DOWN
HardFailureMessages == {"Timeout", "Connection Refused", "DNS Resolution Failed", "TLS Error"}

\* what CheckHTTP returns: UP, one of the simplified errors, or another failure
HttpResults == {[st |-> StatusUp, msg |-> "OK"], [st |-> StatusDown, msg |-> "Status 500"]}
                   \cup {[st |-> StatusDown, msg |-> m] : m \in HardFailureMessages}

\* what CheckDNS returns
DnsResults == {[st |-> StatusUp, msg |-> "OK"], [st |-> StatusDown, msg |-> "Timeout"],
               [st |-> StatusDown, msg |-> "Host Not Found"]}

\* what CheckPing and CheckTCP return (their duration is the probe's own)
RttResults == {[st |-> StatusUp, msg |-> "OK"], [st |-> StatusDown, msg |-> "Timeout"]}

\* milliseconds between startTime and the probe's return
ElapsedInputs == {0, 35}

\* the probe the switch on m.Type calls
ProbeOfType(type) ==
    CASE type = "http" -> "http"
      [] type = "ping" -> "ping"
      [] type = "tcp" -> "tcp"
      [] type = "dns" -> "dns"
      [] type = "" -> "http"
      [] OTHER -> "none"

ResultsOfProbe(probe) ==
    CASE probe = "http" -> HttpResults
      [] probe = "dns" -> DnsResults
      [] probe \in {"ping", "tcp"} -> RttResults
      [] OTHER -> {[st |-> StatusDown, msg |-> "Unsupported type"]}

\* the duration of the heartbeat, branch by branch of the switch
CheckDuration(type, r, elapsed) ==
    CASE type = "http" ->
            IF r.st = StatusDown /\ r.msg \in HardFailureMessages THEN 0 ELSE elapsed
      [] type \in {"ping", "tcp"} -> elapsed
      [] type = "dns" -> IF r.st = StatusDown THEN 0 ELSE elapsed
      [] type = "" -> elapsed
      [] OTHER -> 0

\* Check from the switch to the heartbeat it hands to AddHeartbeat
CheckDispatch ==
    /\ req = NoReq
    /\ \E type \in MonitorTypeValues, elapsed \in ElapsedInputs :
          \E r \in ResultsOfProbe(ProbeOfType(type)) :
             req' = [op |-> "check", type |-> type, probe |-> ProbeOfType(type),
                     result |-> r, elapsed |-> elapsed,
                     heartbeat |-> [status |-> r.st, msg |-> r.msg,
                                    duration |-> CheckDuration(type, r, elapsed)]]
    /\ UNCHANGED progVars

----------------------------------------------------------------------------
(* The tiered queries: which tables a query of window W reads               *)

\* rawHours and hourlyDays as each query reads them from the configuration
QueryRawHours(cfg) == IF cfg.raw_hours <= 0 THEN 24 ELSE cfg.raw_hours
QueryHourlyDays(cfg) == IF cfg.hourly_days <= 0 THEN 7 ELSE cfg.hourly_days

\* the window of a query in half hours; hours := int(duration.Hours()) truncates
WindowInputs == {2, 24, 25, 26, 48, 49, 50, 336, 337, 338, 400}
WholeHours(w) == w \div 2

\* retention settings with raw_hours no longer than hourly_days
QueryConfigs == {[raw_hours |-> 0, hourly_days |-> 0], [raw_hours |-> -1, hourly_days |-> -1],
                 [raw_hours |-> 24, hourly_days |-> 7], [raw_hours |-> 12, hourly_days |-> 1]}

\* GetHeartbeatsWithTimeRange: the tables it reads for hours
HeartbeatsTiers(hours, cfg) ==
    IF hours <= QueryRawHours(cfg) THEN {"raw"}
    ELSE IF hours <= QueryHourlyDays(cfg) * 24 THEN {"hourly"}
    ELSE {"daily"}

\* GetUptimeStats: raw counts inside rawHours; beyond, hourly rows before the current
\* hour and the raw rows of the current hour, whatever the length of the window
UptimeTiers(hours, cfg) ==
    IF hours <= QueryRawHours(cfg) THEN {"raw"} ELSE {"hourly", "raw"}

\* GetAvgResponseTime: the tables it reads for hours
AvgResponseTiers(hours, cfg) ==
    IF hours <= QueryRawHours(cfg) THEN {"raw"}
    ELSE IF hours <= QueryHourlyDays(cfg) * 24 THEN {"hourly"}
    ELSE {"daily"}

QueryNames == {"GetUptimeStats", "GetAvgResponseTime", "GetHeartbeatsWithTimeRange"}

\* one tiered query; GetHeartbeatsWithTimeRange takes whole hours, the others a duration
TieredQuery ==
    /\ req = NoReq
    /\ \E fn \in QueryNames, w \in WindowInputs, cfg \in QueryConfigs :
          /\ fn = "GetHeartbeatsWithTimeRange" => w % 2 = 0
          /\ req' = [op |-> "tieredQuery", fn |-> fn, window |-> w, cfg |-> cfg,
                     tiers |-> CASE fn = "GetUptimeStats" -> UptimeTiers(WholeHours(w), cfg)
                                 [] fn = "GetAvgResponseTime" -> AvgResponseTiers(WholeHours(w), cfg)
                                 [] OTHER -> HeartbeatsTiers(WholeHours(w), cfg)]
    /\ UNCHANGED progVars

\* GetUptimeStats(m, w hours) run now, as the counts it divides: inside rawHours the raw
\* rows with time >= since; beyond, the hourly rows with since <= hour < currentHour and
\* the raw rows with time >= currentHour
GetUptimeStats(m, w) ==
    LET since == now - w * TicksPerHour
        currentHour == TruncateHour(now)
        all == SelectSeq(heartbeats, LAMBDA r : r.monitor_id = m /\ r.time >= since)
        rolled == HourlyWindow(m, since, currentHour)
        live == SelectSeq(heartbeats, LAMBDA r : r.monitor_id = m /\ r.time >= currentHour)
    IN IF w <= QueryRawHours(retention)
       THEN [up |-> CountStatus(all, StatusUp), total |-> Len(all)]
       ELSE [up |-> SumField(rolled, "up_count") + CountStatus(live, StatusUp),
             total |-> SumField(rolled, "total_count") + Len(live)]

----------------------------------------------------------------------------
(* The chart: one point from the hourly rows and raw heartbeats of its      *)
(* bucket                                                                   *)

\* a float64 percentage, kept to two decimals; 10000 is 100 %
Percent(up, total) == (up * 10000) \div total

\* the point for a bucket without data
EmptyPoint(live) == [status |-> -1, uptime |-> 10000, duration |-> 0, isLive |-> live]

\* the hourly rows a bucket can hold in the model: none, or the row of one hour
HourlyInputs == {<<>>} \cup {<<HourlyRow(1, 0, HourlyResult(rows))>> : rows \in SampleRows}

\* the raw heartbeats of the current hour: none, or up to MaxSamples of them
RawInputs == {<<>>} \cup SampleRows

\* getChartData24h, points 0..22: the hourly row of the hour, or the empty point
HourPoint(rows) ==
    IF rows = <<>> THEN EmptyPoint(FALSE)
    ELSE [status |-> IF rows[1].uptime < 5000 THEN StatusDown ELSE StatusUp,
          uptime |-> rows[1].uptime, duration |-> rows[1].avg_duration, isLive |-> FALSE]

\* getChartData7d, points 0..26: the hourly rows of the six hours of the slot
SlotPoint(rows) ==
    LET up == SumField(rows, "up_count")
        down == SumField(rows, "down_count")
    IN IF Len(rows) = 0 THEN EmptyPoint(FALSE)
       ELSE [status |-> IF 2 * up < up + down THEN StatusDown ELSE StatusUp,
             uptime |-> Percent(up, up + down),
             duration |-> SumField(rows, "avg_duration") \div Len(rows), isLive |-> FALSE]

\* getCurrentHourPoint: the raw heartbeats with time >= currentHour, the latest last
CurrentHourPoint(hbs) ==
    LET up == CountStatus(hbs, StatusUp)
        down == CountStatus(hbs, StatusDown)
    IN IF Len(hbs) = 0 THEN EmptyPoint(TRUE)
       ELSE [status |-> hbs[Len(hbs)].status,
             uptime |-> IF up + down > 0 THEN Percent(up, up + down) ELSE 10000,
             duration |-> IF up > 0 THEN SumUpDuration(hbs) \div up ELSE 0,
             isLive |-> TRUE]

\* getCurrentSlotPoint: the hourly rows of the slot before currentHour and the raw
\* heartbeats of the current hour; the current hour counts as data only with an UP
CurrentSlotPoint(rows, hbs) ==
    LET currentUp == CountStatus(hbs, StatusUp)
        currentDown == CountStatus(hbs, StatusDown)
        totalUp == SumField(rows, "up_count") + (IF currentUp > 0 THEN currentUp ELSE 0)
        totalDown == SumField(rows, "down_count")
                        + (IF currentUp > 0 \/ Len(hbs) > 0 THEN currentDown ELSE 0)
        totalDuration == SumField(rows, "avg_duration")
                            + (IF currentUp > 0 THEN SumUpDuration(hbs) \div currentUp ELSE 0)
        dataCount == Len(rows) + (IF currentUp > 0 THEN 1 ELSE 0)
        total == totalUp + totalDown
    IN IF dataCount = 0 THEN EmptyPoint(TRUE)
       ELSE [status |-> IF Len(hbs) > 0 THEN hbs[Len(hbs)].status
                        ELSE IF total > 0 /\ 2 * totalUp < total THEN StatusDown
                        ELSE StatusUp,
             uptime |-> IF total > 0 THEN Percent(totalUp, total) ELSE 10000,
             duration |-> totalDuration \div dataCount, isLive |-> TRUE]

\* one point of GetChartData: a closed hour (24h), a closed slot (7d), the live hour
\* (24h) or the live slot (7d), over the rows and heartbeats of its bucket
ChartPoint ==
    /\ req = NoReq
    /\ \E kind \in {"hour", "slot", "currentHour", "currentSlot"},
          rows \in HourlyInputs, hbs \in RawInputs :
          /\ kind \in {"hour", "slot"} => hbs = <<>>
          /\ kind = "currentHour" => rows = <<>>
          /\ req' = [op |-> "chartPoint", kind |-> kind, rows |-> rows, hbs |-> hbs,
                     point |-> CASE kind = "hour" -> HourPoint(rows)
                                 [] kind = "slot" -> SlotPoint(rows)
                                 [] kind = "currentHour" -> CurrentHourPoint(hbs)
                                 [] OTHER -> CurrentSlotPoint(rows, hbs)]
    /\ UNCHANGED progVars

----------------------------------------------------------------------------
(* The 7d chart: which of the 28 points an hourly row contributes to        *)

SlotHours == 6          \* hours per point of the 7d view
ClosedSlots == 27       \* points 0..26, built from hourly rows alone
ChartSpanHours == 167   \* startTime := currentHour - 167 h

\* the closed points whose six hours [startTime + 6i, startTime + 6i + 6) hold hour h
ClosedPointsOf(h, currentHour) ==
    LET startTime == currentHour - ChartSpanHours
    IN {i \in 0..(ClosedSlots - 1) :
           /\ startTime <= h /\ h < currentHour
           /\ startTime + i * SlotHours <= h
           /\ h < startTime + i * SlotHours + SlotHours}

\* getCurrentSlotPoint: the day-aligned slot that holds currentHour starts at
\* (hourOfDay / slotHours) * slotHours of the same day
SlotStart(currentHour) ==
    LET hourOfDay == currentHour % HoursPerDay
        slotStart == currentHour - hourOfDay + (hourOfDay \div SlotHours) * SlotHours
    IN IF slotStart > currentHour THEN slotStart - SlotHours ELSE slotStart

\* point 27 reads the hourly rows with slotStart <= hour < currentHour
LivePointOf(h, currentHour) ==
    IF SlotStart(currentHour) <= h /\ h < currentHour THEN {ClosedSlots} ELSE {}

\* getChartData7d at hourOfDay o'clock with one hourly row, offset hours before currentHour
ChartSevenDays ==
    /\ req = NoReq
    /\ \E hourOfDay \in 0..(HoursPerDay - 1), offset \in 1..ChartSpanHours :
          LET currentHour == (ChartSpanHours \div HoursPerDay + 1) * HoursPerDay + hourOfDay
              h == currentHour - offset
          IN req' = [op |-> "chart7d", hourOfDay |-> hourOfDay, currentHour |-> currentHour,
                     hour |-> h,
                     points |-> ClosedPointsOf(h, currentHour) \cup LivePointOf(h, currentHour)]
    /\ UNCHANGED progVars

----------------------------------------------------------------------------
(* importMonitorConfig                                                      *)

MaxImport == 3          \* items in one import

\* an item of the list, with err: whether db.DB.Create fails for it
ImportItems == [name : {"A", "B", ""}, url : {"u", ""}, active : {0, 1}, err : BOOLEAN]

ImportLists == UNION {[1..n -> ImportItems] : n \in 0..MaxImport}

\* the names of the monitors in the store before the import
StoreInputs == {{}, {"A"}}

\* the handler's locals before the loop
ImportStart(store) ==
    [store |-> store, imported |-> 0, skipped |-> 0, skippedNames |-> <<>>,
     rows |-> <<>>, started |-> <<>>]

\* for _, m := range monitorsInput: no name or no url, next; a monitor of that name,
\* skipped; otherwise Create, and on success count it and start it if Active == 1
RECURSIVE ImportLoop(_, _)
ImportLoop(items, acc) ==
    IF items = <<>> THEN acc
    ELSE LET m == Head(items)
             active == CreatedActive(m.active)
         IN IF m.name = "" \/ m.url = "" THEN ImportLoop(Tail(items), acc)
            ELSE IF m.name \in acc.store
            THEN ImportLoop(Tail(items),
                            [acc EXCEPT !.skipped = @ + 1,
                                        !.skippedNames = Append(@, m.name)])
            ELSE IF m.err THEN ImportLoop(Tail(items), acc)
            ELSE ImportLoop(Tail(items),
                            [acc EXCEPT !.store = @ \cup {m.name},
                                        !.imported = @ + 1,
                                        !.rows = Append(@, [name |-> m.name, active |-> active]),
                                        !.started = IF active = 1 THEN Append(@, m.name)
                                                    ELSE @])

\* importMonitorConfig(list) against a store, with the ack it sends
ImportMonitorConfig ==
    /\ req = NoReq
    /\ \E items \in ImportLists, store \in StoreInputs :
          LET done == ImportLoop(items, ImportStart(store))
          IN req' = [op |-> "import", items |-> items, store |-> store,
                     ack |-> [ok |-> TRUE, imported |-> done.imported,
                              skipped |-> done.skipped,
                              skippedNames |-> done.skippedNames],
                     rows |-> done.rows, started |-> done.started]
    /\ UNCHANGED progVars

----------------------------------------------------------------------------
(* exportMonitorConfig followed by importMonitorConfig into an empty store  *)

MaxExported == 2        \* monitors in the exported list

\* the rows of the monitors table an export can find: names are unique, the type is
\* one the probes know, the interval one a handler persisted
StoredMonitors ==
    [type : {"http", "ping"}, url : {"u"}, interval : {20, 300}, active : {0, 1},
     follow_redirects : BOOLEAN, timeout : {10}]

\* exportMonitorConfig: db.DB.Find(&monitors), emitted as JSON with each row's fields
Export(store) == [i \in DOMAIN store |-> store[i]]

\* db.DB.Create of a struct whose FollowRedirects is tagged gorm:"default:true": a
\* false value is stored as the default
CreatedFollow(follow) == IF follow THEN follow ELSE TRUE

\* one item of the import: newMonitor built from the item, then Create with the
\* defaults of the tags, then StartMonitor if newMonitor.Active == 1
ImportedMonitor(m) ==
    LET active == CreatedActive(m.active) IN
    [name |-> m.name, url |-> m.url,
     type |-> IF m.type \in {"http", "ping", "tcp", "dns"} THEN m.type ELSE "http",
     interval |-> ImportInterval([v |-> m.interval]),
     timeout |-> IF m.timeout < 1 THEN 10 ELSE m.timeout,
     follow_redirects |-> CreatedFollow(m.follow_redirects),
     active |-> active,
     scheduled |-> TickerOf(active, m.interval).started]

\* the monitor list is exported and the list is imported into a store without monitors
ExportImport ==
    /\ req = NoReq
    /\ \E n \in 1..MaxExported : \E fields \in [1..n -> StoredMonitors] :
          LET store == [i \in 1..n |->
                          [name |-> IF i = 1 THEN "A" ELSE "B", url |-> fields[i].url,
                           type |-> fields[i].type, interval |-> fields[i].interval,
                           active |-> fields[i].active, timeout |-> fields[i].timeout,
                           follow_redirects |-> fields[i].follow_redirects]]
              list == Export(store)
          IN req' = [op |-> "exportImport", exported |-> list,
                     imported |-> [i \in DOMAIN list |-> ImportedMonitor(list[i])]]
    /\ UNCHANGED progVars

----------------------------------------------------------------------------
(* NewService: the reset of the trigger rules at process start              *)

MaxStoredRules == 3     \* rows of the notifications table at process start

StoredRules == [type : {"trigger", "schedule"}, active : BOOLEAN]

\* an Update("active", false) without the Where
ResetAll(table) == [i \in DOMAIN table |-> [table[i] EXCEPT !.active = FALSE]]

\* Model(&model.Notification{}).Where("type = ?", "trigger").Update("active", false)
ResetTriggers(table) ==
    [i \in DOMAIN table |->
        IF table[i].type = "trigger" THEN [table[i] EXCEPT !.active = FALSE] ELSE table[i]]

\* the worker's Where("type = ? AND active = ?", "trigger", true).Find(&rules)
FoundTriggers(table) ==
    {i \in DOMAIN table : table[i].type = "trigger" /\ table[i].active}

\* NewService at process start, and what the notification worker then finds
NewService ==
    /\ req = NoReq
    /\ \E n \in 0..MaxStoredRules : \E table \in [1..n -> StoredRules] :
          LET after == ResetTriggers(table)
          IN req' = [op |-> "NewService", before |-> table, after |-> after,
                     found |-> FoundTriggers(after)]
    /\ UNCHANGED progVars

----------------------------------------------------------------------------
(* testMonitor and TestHTTP: the form data of a test request                *)

MaxFields == 2          \* fields in the form data of one test request

\* a path as its segments; "/" in front makes it absolute
PathInputs == {<<"/", "etc", "passwd">>, <<"..", "..", "etc", "passwd">>, <<"f.txt">>,
               <<"d", "a..b">>}

\* filepath.IsAbs(field.Value)
IsAbs(p) == p[1] = "/"

\* strings.Contains(field.Value, "..")
ContainsDotDot(p) == \E i \in DOMAIN p : p[i] \in {"..", "a..b"}

FormFields == [key : {"f"}, value : PathInputs, type : {"text", "file"}]

\* m.FormData after json.Unmarshal: no field, or up to MaxFields of them
FormInputs == UNION {[1..n -> FormFields] : n \in 0..MaxFields}

\* TestHTTP's loop over the fields: a file field with an absolute path or with ".." ends
\* the call with the message; any other file field is opened (and the call ends if the
\* open fails); a text field is written to the body
RECURSIVE FormLoop(_, _, _)
FormLoop(fields, opened, openFails) ==
    IF fields = <<>> THEN [done |-> FALSE, msg |-> [kind |-> "none"], opened |-> opened]
    ELSE LET f == Head(fields)
         IN IF f.type = "file"
            THEN IF IsAbs(f.value) \/ ContainsDotDot(f.value)
                 THEN [done |-> TRUE, msg |-> [kind |-> "Invalid file path", value |-> f.value],
                       opened |-> opened]
                 ELSE IF openFails
                 THEN [done |-> TRUE, msg |-> [kind |-> "Open file failed"],
                       opened |-> opened \cup {f.value}]
                 ELSE FormLoop(Tail(fields), opened \cup {f.value}, openFails)
            ELSE FormLoop(Tail(fields), opened, openFails)

\* TestHTTP(m): the form data is read only for POST, PUT and PATCH; without an early
\* return the request is sent
TestHTTP(method, fields, openFails) ==
    LET isFormMethod == method \in {"POST", "PUT", "PATCH"}
        form == IF isFormMethod /\ fields # <<>> THEN FormLoop(fields, {}, openFails)
                ELSE [done |-> FALSE, msg |-> [kind |-> "none"], opened |-> {}]
    IN IF form.done
       THEN [status |-> 0, msg |-> form.msg, opened |-> form.opened, network |-> FALSE]
       ELSE [status |-> 200, msg |-> [kind |-> "body"], opened |-> form.opened,
             network |-> TRUE]

\* the testMonitor handler: the switch on the type, then the ack, whose ok is always true
TestMonitor ==
    /\ req = NoReq
    /\ \E type \in {"http", "ping", ""}, method \in {"", "GET", "POST"},
          fields \in FormInputs, openFails \in BOOLEAN :
          LET m == IF method = "" THEN "GET" ELSE method
              r == CASE type = "http" -> TestHTTP(m, fields, openFails)
                     [] type = "ping" -> [status |-> 200, msg |-> [kind |-> "ping"],
                                          opened |-> {}, network |-> TRUE]
                     [] OTHER -> [status |-> 0, msg |-> [kind |-> "Unknown monitor type"],
                                  opened |-> {}, network |-> FALSE]
          IN req' = [op |-> "testMonitor", type |-> type, method |-> method,
                     fields |-> fields,
                     ack |-> [ok |-> TRUE, status |-> r.status, msg |-> r.msg],
                     opened |-> r.opened, network |-> r.network]
    /\ UNCHANGED progVars

----------------------------------------------------------------------------
(* Service.StopMonitor as a function of the scheduler's maps, with the keys *)
(* of notificationStates spelled out as the strings fmt.Sprintf builds      *)

StopIds == {2, 12}      \* monitor ids, one the decimal suffix of the other
KeyRules == {1, 12}     \* rule ids

DigitChars == <<"0", "1", "2", "3", "4", "5", "6", "7", "8", "9">>

\* fmt.Sprintf("%d", n)
RECURSIVE Digits(_)
Digits(n) == IF n < 10 THEN <<DigitChars[n + 1]>>
             ELSE Digits(n \div 10) \o <<DigitChars[(n % 10) + 1]>>

\* fmt.Sprintf("%d_%d", rule.ID, result.MonitorID)
StateKey(rule, id) == Digits(rule) \o <<"_">> \o Digits(id)

\* strings.HasSuffix
HasSuffix(str, suffix) ==
    /\ Len(str) >= Len(suffix)
    /\ SubSeq(str, Len(str) - Len(suffix) + 1, Len(str)) = suffix

\* the id alone, without the separator
BareSuffix(id) == Digits(id)

\* fmt.Sprintf("_%d", id)
StateSuffix(id) == <<"_">> \o Digits(id)

StateKeys == {StateKey(r, i) : r \in KeyRules, i \in StopIds}

\* what StartMonitor and StopMonitor leave for one id: a running monitor has an
\* entry in each map, an inactive one in monitors alone, a stopped one its flag
EntryKinds == {"running", "inactive", "absent", "stopped"}

SchedulerOf(kind, states) ==
    [monitors |-> {i \in StopIds : kind[i] \in {"running", "inactive"}},
     tickers |-> {i \in StopIds : kind[i] = "running"},
     stopChans |-> {i \in StopIds : kind[i] = "running"},
     stoppedMonitors |-> {i \in StopIds : kind[i] = "stopped"},
     notificationStates |-> states,
     closes |-> [i \in StopIds |-> 0]]

\* Service.StopMonitor(id) on the scheduler s; closes counts the close(stopChan) calls
StopMonitorOn(s, id) ==
    IF id \in s.stoppedMonitors
    THEN s
    ELSE [monitors |-> s.monitors \ {id},
          tickers |-> s.tickers \ {id},
          stopChans |-> s.stopChans \ {id},
          stoppedMonitors |-> s.stoppedMonitors \cup {id},
          notificationStates |->
              {k \in s.notificationStates : ~HasSuffix(k, StateSuffix(id))},
          closes |-> IF id \in s.stopChans
                     THEN [s.closes EXCEPT ![id] = @ + 1] ELSE s.closes]

\* StopMonitor(id) called twice in a row
StopMonitorTwice ==
    /\ req = NoReq
    /\ \E kind \in [StopIds -> EntryKinds], states \in SUBSET StateKeys, id \in StopIds :
          LET s == SchedulerOf(kind, states) IN
          req' = [op |-> "StopMonitor", id |-> id, before |-> s,
                  once |-> StopMonitorOn(s, id),
                  twice |-> StopMonitorOn(StopMonitorOn(s, id), id)]
    /\ UNCHANGED progVars

----------------------------------------------------------------------------
(* Who may call the operations that write: the requireAuth wrapper of the   *)
(* socket events and the route group of the REST API                        *)

\* events registered with requireAuth(client, event, handler)
GuardedEvents == {"add", "edit", "toggleActive", "deleteMonitor", "importMonitorConfig"}

\* events registered with client.On(event, handler)
PlainEvents == {"clearEvents"}

\* routes of the group /api, which has no middleware but CORS
ApiRoutes == {"POST /api/monitors", "DELETE /api/monitors/:id"}

\* data["token"] of the first argument: none, the token of a live session, the
\* token of an expired session, a token of no session
TokenInputs == {"none", "valid", "expired", "unknown"}

\* what the handler of an operation writes when it runs on well-formed arguments
Writes(op) ==
    CASE op \in {"add", "importMonitorConfig", "POST /api/monitors"} ->
            {"monitors", "tickers"}
      [] op \in {"edit", "toggleActive"} -> {"monitors", "tickers", "notificationStates"}
      [] op \in {"deleteMonitor", "DELETE /api/monitors/:id"} ->
            {"monitors", "tickers", "notificationStates", "heartbeats"}
      [] op = "clearEvents" -> {"heartbeats", "heartbeats_hourly", "heartbeats_daily"}

\* requireAuth: the handler runs for a socket stored as authenticated, or when the
\* first argument carries the token of a session that has not expired
requireAuth(authed, token) == authed \/ token = "valid"

\* does the handler of op run for this caller
HandlerRuns(op, authed, token) ==
    IF op \in GuardedEvents THEN requireAuth(authed, token) ELSE TRUE

\* one request of a client, authenticated or not, on an operation that writes
ControlRequest ==
    /\ req = NoReq
    /\ \E op \in GuardedEvents \cup PlainEvents \cup ApiRoutes, authed \in BOOLEAN,
          token \in TokenInputs :
          req' = [op |-> "control", event |-> op, authed |-> authed, token |-> token,
                  writes |-> IF HandlerRuns(op, authed, token) THEN Writes(op) ELSE {}]
    /\ UNCHANGED progVars

----------------------------------------------------------------------------
(* The handlers that read and write monitor names: add, edit,               *)
(* importMonitorConfig, POST /api/monitors and DELETE /api/monitors/:id,    *)
(* each a sequence of store and scheduler calls that other clients'         *)
(* handlers interleave with                                                 *)

MaxRows == 2            \* rows the monitors table may come to hold
MaxStarts == 3          \* tickers StartMonitor may come to create
MaxItems == 2           \* monitors of one import

Names == {"A", "B"}

\* a validation that counts nothing
NameCountNone(rows, name, id) == 0

\* Where("name = ?", name) or Where("name = ? AND id != ?", name, id), counted
\* over the rows that are not soft-deleted; id 0 excludes no row
NameCount(rows, name, id) ==
    Cardinality({i \in DOMAIN rows : ~rows[i].deleted /\ rows[i].name = name /\ i # id})

\* Service.StartMonitor on the scheduler
StartOn(s, id, active) ==
    IF active = 1
    THEN [s EXCEPT !.stopped = @ \ {id}, !.tickers = @ \cup {id}, !.started = @ + 1]
    ELSE [s EXCEPT !.stopped = @ \ {id}, !.tickers = @ \ {id}]

\* Service.StopMonitor on the scheduler
StopOn(s, id) ==
    IF id \in s.stopped THEN s
    ELSE [s EXCEPT !.tickers = @ \ {id}, !.states = @ \ {id}, !.stopped = @ \cup {id}]

\* rows that handlers in flight are about to insert
Inserting == Cardinality({c \in Clients : calls[c].pc \in {"count", "create"}
                                          /\ calls[c].op # "edit"})

\* the handler returns with this answer
Answer(c, ack) == [calls EXCEPT ![c].pc = "done", ![c].ack = ack]

ctlRest == <<req, life, shut, dropped, now, aggVars, lastOp, notifVars, dbMon, monitors, tickers,
             stopChans, stoppedMonitors, notificationStates, gor, chClosed, tkStopped,
             hand, hbChan, batch, heartbeats, hourly, daily, checkResultChannel,
             deleteDone, probes>>

\* add: the name is read; an empty one is answered with a notification
CallAdd(c) ==
    /\ calls[c].pc = "idle"
    /\ Len(monRows) + Inserting < MaxRows
    /\ \E name \in Names \cup {""} :
          calls' = [calls EXCEPT ![c] =
                      [IdleCall EXCEPT !.op = "add", !.name = name, !.active = 1,
                                       !.pc = IF name = "" THEN "done" ELSE "count",
                                       !.ack = IF name = "" THEN "Name is required"
                                               ELSE "none"]]
    /\ UNCHANGED <<monRows, sched, ctlRest>>

\* edit: First(&m, id), oldActive, the new name is read; an empty one is answered
\* with a notification, an unchanged one is not counted
CallEdit(c) ==
    /\ calls[c].pc = "idle"
    /\ sched.started < MaxStarts
    /\ \E id \in DOMAIN monRows, name \in Names \cup {""}, active \in {0, 1} :
          /\ ~monRows[id].deleted
          /\ calls' = [calls EXCEPT ![c] =
                        [IdleCall EXCEPT !.op = "edit", !.id = id, !.name = name,
                                         !.active = active, !.old = monRows[id].active,
                                         !.pc = IF name = "" THEN "done"
                                                ELSE IF monRows[id].name # name
                                                THEN "count" ELSE "save",
                                         !.ack = IF name = "" THEN "Name is required"
                                                 ELSE "none"]]
    /\ UNCHANGED <<monRows, sched, ctlRest>>

\* importMonitorConfig: the list is decoded; items without a name or a url are passed over
CallImport(c) ==
    /\ calls[c].pc = "idle"
    /\ \E n \in 1..MaxItems : \E items \in [1..n -> Names] :
          /\ Len(monRows) + Inserting + n <= MaxRows
          /\ calls' = [calls EXCEPT ![c] =
                        [IdleCall EXCEPT !.op = "import", !.pc = "count", !.active = 1,
                                         !.name = items[1], !.items = Tail(items)]]
    /\ UNCHANGED <<monRows, sched, ctlRest>>

\* POST /api/monitors: ShouldBindJSON, then Create without a look at the names
CallCreateAPI(c) ==
    /\ calls[c].pc = "idle"
    /\ Len(monRows) + Inserting < MaxRows
    /\ \E name \in Names :
          calls' = [calls EXCEPT ![c] =
                      [IdleCall EXCEPT !.op = "POST", !.pc = "create", !.name = name,
                                       !.active = 1]]
    /\ UNCHANGED <<monRows, sched, ctlRest>>

\* the next item of an import, or its ack
NextItem(c) ==
    IF calls[c].items = <<>> THEN Answer(c, "ok")
    ELSE [calls EXCEPT ![c].pc = "count", ![c].name = Head(calls[c].items),
                       ![c].items = Tail(calls[c].items), ![c].id = 0]

\* Count(&count) and if count > 0: add and edit answer ok:false, import skips the item
CallCount(c) ==
    /\ calls[c].pc = "count"
    /\ calls' = IF NameCount(monRows, calls[c].name, calls[c].id) > 0
                THEN IF calls[c].op = "import" THEN NextItem(c) ELSE Answer(c, "exists")
                ELSE [calls EXCEPT ![c].pc = IF calls[c].op = "edit" THEN "save"
                                             ELSE "create"]
    /\ UNCHANGED <<monRows, sched, ctlRest>>

\* db.DB.Create(&m): a new row, its id the next one
CallCreate(c) ==
    /\ calls[c].pc = "create"
    /\ monRows' = Append(monRows, [name |-> calls[c].name, deleted |-> FALSE,
                                   active |-> calls[c].active])
    /\ calls' = [calls EXCEPT ![c].pc = "start", ![c].id = Len(monRows) + 1]
    /\ UNCHANGED <<sched, ctlRest>>

\* edit: db.DB.Save(&m) with the new name and the new active
CallSave(c) ==
    /\ calls[c].pc = "save"
    /\ monRows' = [monRows EXCEPT ![calls[c].id].name = calls[c].name,
                                  ![calls[c].id].active = calls[c].active]
    /\ calls' = [calls EXCEPT ![c].pc = "start"]
    /\ UNCHANGED <<sched, ctlRest>>

\* the calls on the scheduler that follow the write: StartMonitor after a Create;
\* after an edit StopMonitor, StartMonitor or both; then the ack or the next item
CallStart(c) ==
    /\ calls[c].pc = "start"
    /\ sched' = IF calls[c].op # "edit" THEN StartOn(sched, calls[c].id, calls[c].active)
                ELSE IF calls[c].old # calls[c].active
                THEN IF calls[c].active = 0 THEN StopOn(sched, calls[c].id)
                     ELSE StartOn(sched, calls[c].id, 1)
                ELSE IF calls[c].active = 1
                THEN StartOn(StopOn(sched, calls[c].id), calls[c].id, 1)
                ELSE sched
    /\ calls' = IF calls[c].op = "import" THEN NextItem(c) ELSE Answer(c, "ok")
    /\ UNCHANGED <<monRows, ctlRest>>

\* DELETE /api/monitors/:id: the soft delete, then StopMonitor; taken here while no
\* other handler holds the row
CallDeleteAPI(c) ==
    /\ calls[c].pc = "idle"
    /\ \E id \in DOMAIN monRows :
          /\ ~monRows[id].deleted
          /\ \A d \in Clients : calls[d].id # id
          /\ monRows' = [monRows EXCEPT ![id].deleted = TRUE]
          /\ sched' = StopOn(sched, id)
          /\ calls' = [calls EXCEPT ![c] = [IdleCall EXCEPT !.op = "DELETE", !.pc = "done",
                                                            !.id = id, !.ack = "ok"]]
    /\ UNCHANGED ctlRest

\* the handler has returned
CallReturn(c) ==
    /\ calls[c].pc = "done"
    /\ calls' = [calls EXCEPT ![c] = IdleCall]
    /\ UNCHANGED <<monRows, sched, ctlRest>>

\* the notification worker creates the NotificationState of a monitor that is checked
RecordState ==
    /\ \E id \in sched.tickers :
          /\ id \notin sched.states
          /\ sched' = [sched EXCEPT !.states = @ \cup {id}]
    /\ UNCHANGED <<monRows, calls, ctlRest>>

NextNames ==
    \/ \E c \in Clients : CallAdd(c)
    \/ \E c \in Clients : CallEdit(c)
    \/ \E c \in Clients : CallImport(c)
    \/ \E c \in Clients : CallCreateAPI(c)
    \/ \E c \in Clients : CallCount(c)
    \/ \E c \in Clients : CallCreate(c)
    \/ \E c \in Clients : CallSave(c)
    \/ \E c \in Clients : CallStart(c)
    \/ \E c \in Clients : CallDeleteAPI(c)
    \/ \E c \in Clients : CallReturn(c)
    \/ RecordState

----------------------------------------------------------------------------
(* The scheduler's maps and stop channels under StartMonitor, StopMonitor,  *)
(* StopAll and Shutdown; each call but the head of Shutdown runs under s.mu *)

lifeRest == <<req, shut, monRows, calls, sched, dropped, now, aggVars, lastOp, notifVars,
              dbMon, monitors, tickers, stopChans, stoppedMonitors, notificationStates,
              gor, chClosed, tkStopped, hand, hbChan, batch, heartbeats, hourly, daily,
              checkResultChannel, deleteDone, probes>>

\* close of a closed channel panics: nothing runs after it
Alive == /\ \A c \in DOMAIN life.closes : life.closes[c] <= 1
         /\ life.workerCloses <= 1

\* close(stopChan) for every id of ids that has an entry in stopChans
ClosedFor(l, ids) ==
    [c \in DOMAIN l.closes |->
        l.closes[c] + (IF \E i \in ids : l.stopChans[i] = c THEN 1 ELSE 0)]

\* a ticker and a stop channel for every monitor handed to StartMonitor
RegisteredAlways(active) == TRUE

\* if m.Active != 1 { return }: only an active monitor gets a ticker and a stop channel
Registered(active) == active = 1

\* Service.StartMonitor(m)
LifeStart(id, active) ==
    /\ Alive
    /\ life.made < MaxChans
    /\ LET closed == [life EXCEPT !.stoppedMonitors = @ \ {id},
                                  !.closes = ClosedFor(life, {id}),
                                  !.stopChans[id] = 0,
                                  !.tickers = @ \ {id},
                                  !.monitors[id] = IF active = 1 THEN "active" ELSE "inactive"]
       IN life' = IF Registered(active)
                  THEN [closed EXCEPT !.made = @ + 1, !.stopChans[id] = life.made + 1,
                                      !.tickers = @ \cup {id}]
                  ELSE closed
    /\ UNCHANGED lifeRest

\* Service.StopMonitor(id)
LifeStop(id) ==
    /\ Alive
    /\ life' = IF id \in life.stoppedMonitors THEN life
               ELSE [life EXCEPT !.closes = ClosedFor(life, {id}),
                                 !.stopChans[id] = 0,
                                 !.tickers = @ \ {id},
                                 !.monitors[id] = "absent",
                                 !.stoppedMonitors = @ \cup {id}]
    /\ UNCHANGED lifeRest

\* Service.StopAll()
StopAll ==
    /\ Alive
    /\ life' = [life EXCEPT !.workerCloses = IF life.workerStopped THEN @ ELSE @ + 1,
                            !.workerStopped = TRUE,
                            !.closes = ClosedFor(life, LifeIds),
                            !.stopChans = [i \in LifeIds |-> 0],
                            !.tickers = {}]
    /\ UNCHANGED lifeRest

\* Service.Shutdown: if !s.workerStopped, read without the lock
ShutdownBegin ==
    /\ Alive
    /\ life.sd = "idle"
    /\ life' = [life EXCEPT !.sd = IF life.workerStopped THEN "locked" ELSE "worker"]
    /\ UNCHANGED lifeRest

\* Service.Shutdown: close(s.stopWorker); s.workerStopped = true
ShutdownWorker ==
    /\ Alive
    /\ life.sd = "worker"
    /\ life' = [life EXCEPT !.workerCloses = @ + 1, !.workerStopped = TRUE,
                            !.sd = "locked"]
    /\ UNCHANGED lifeRest

\* Service.Shutdown under s.mu: close(stopChan) and ticker.Stop() for every monitor of
\* s.monitors; no entry is deleted
ShutdownMonitors ==
    /\ Alive
    /\ life.sd = "locked"
    /\ life' = [life EXCEPT !.closes = ClosedFor(life, {i \in LifeIds :
                                                          life.monitors[i] # "absent"}),
                            !.sd = "idle"]
    /\ UNCHANGED lifeRest

\* Service.HealthCheck()
HealthCheck ==
    [total_monitors |-> Cardinality({i \in LifeIds : life.monitors[i] # "absent"}),
     active_monitors |-> Cardinality(life.tickers)]

\* the calls the server makes on the service
NextLife ==
    \/ \E id \in LifeIds, active \in {0, 1} : LifeStart(id, active)
    \/ \E id \in LifeIds : LifeStop(id)
    \/ StopAll

\* ... and Shutdown with them
NextShutdown ==
    \/ NextLife
    \/ ShutdownBegin
    \/ ShutdownWorker
    \/ ShutdownMonitors

----------------------------------------------------------------------------
(* Shutdown of the heartbeat buffer: database.Close against the writer     *)
(* goroutine and the callers of AddHeartbeat                               *)

MaxAccepted == 3        \* heartbeats offered to the buffer before Close

\* what a shutdown neither reads nor writes
closeRest == <<req, ctlVars, dropped, now, aggVars, lastOp, notifVars, dbMon, monitors,
               tickers, stopChans, stoppedMonitors, notificationStates, gor, chClosed,
               tkStopped, hand, hourly, daily, checkResultChannel, deleteDone, probes>>

\* AddHeartbeat(h) while the buffer is set: the channel takes h or, full, drops it
AcceptHeartbeat ==
    /\ shut.pc = "up"
    /\ Len(shut.accepted) < MaxAccepted
    /\ \E st \in {StatusDown, StatusUp} :
          LET h == [monitor_id |-> 1, time |-> now, at |-> Len(shut.accepted) + 1,
                    status |-> st, duration |-> 0] IN
          /\ hbChan' = AddHeartbeat(hbChan, h)
          /\ shut' = IF Len(hbChan) < HeartbeatBufferSize
                     THEN [shut EXCEPT !.accepted = Append(@, h)]
                     ELSE shut
    /\ UNCHANGED <<batch, heartbeats, closeRest>>

\* Close: cleanupCancel(), then FlushHeartbeatBuffer closes done and unsets the buffer
FlushHeartbeatBuffer ==
    /\ shut.pc = "up"
    /\ shut' = [shut EXCEPT !.pc = "sleep"]
    /\ UNCHANGED <<hbChan, batch, heartbeats, closeRest>>

\* case <-heartbeatBuffer.done: flush the batch and return; the channel is left as it is
WriterDone ==
    /\ shut.writer = "select"
    /\ shut.pc # "up"
    /\ heartbeats' = IF batch # <<>> THEN flushHeartbeats(batch) ELSE heartbeats
    /\ batch' = <<>>
    /\ shut' = [shut EXCEPT !.writer = "returned"]
    /\ UNCHANGED <<hbChan, closeRest>>

\* the next select reads heartbeatBuffer while Close has written nil to it without
\* synchronisation: the writer that still sees the old pointer waits again
WriterEnter ==
    /\ shut.writer = "loop"
    /\ shut' = [shut EXCEPT !.writer = "select"]
    /\ UNCHANGED <<hbChan, batch, heartbeats, closeRest>>

\* ... and the writer that sees nil dereferences it: the process panics
WriterPanic ==
    /\ shut.writer = "loop"
    /\ shut' = [shut EXCEPT !.writer = "panicked"]
    /\ UNCHANGED <<hbChan, batch, heartbeats, closeRest>>

\* Close after time.Sleep(HeartbeatFlushWaitTime): sqlDB.Close()
CloseStore ==
    /\ shut.pc = "sleep"
    /\ shut.writer # "panicked"
    /\ shut' = [shut EXCEPT !.pc = "closed"]
    /\ UNCHANGED <<hbChan, batch, heartbeats, closeRest>>

NextClose ==
    \/ AcceptHeartbeat
    \/ WriterRecv
    \/ WriterTick
    \/ FlushHeartbeatBuffer
    \/ WriterDone
    \/ WriterEnter
    \/ WriterPanic
    \/ CloseStore

----------------------------------------------------------------------------
(* The daily report: Service.sendReport                                    *)

\* statusStr of sendReport's switch on m.Status (the labels of the mail, by meaning)
StatusStr(status) ==
    IF status = StatusUp THEN "normal"
    ELSE IF status = StatusDown THEN "abnormal"
    ELSE IF status = StatusPending THEN "checking"
    ELSE "UNKNOWN"

\* the monitors of s.monitors that the report lists: those with Active == 1
Listed(ms) == {i \in DOMAIN ms : ms[i].present /\ ms[i].active = 1}

\* sendReport: the totals and the per-monitor status, read from s.monitors under s.mu
sendReport(ms) ==
    [total  |-> Cardinality({i \in DOMAIN ms : ms[i].present}),
     paused |-> Cardinality({i \in DOMAIN ms : ms[i].present /\ ms[i].active # 1}),
     up     |-> Cardinality({i \in Listed(ms) : ms[i].status = StatusUp}),
     down   |-> Cardinality({i \in Listed(ms) : ms[i].status = StatusDown}),
     list   |-> [i \in Listed(ms) |-> StatusStr(ms[i].status)]]

----------------------------------------------------------------------------
(* Specifications                                                          *)

\* the goroutine of monitor i, waiting in select
RunningG(i) == [FreeG EXCEPT !.pc = "select", !.mon = i]

\* the service after NewService, the store after db.Init
InitService ==
    /\ stoppedMonitors = {}
    /\ notificationStates = [k \in Pairs |-> NoState]
    /\ hand = [h \in HIds |-> IdleH]
    /\ hbChan = <<>>
    /\ batch = <<>>
    /\ heartbeats = <<>>
    /\ hourly = <<>>
    /\ daily = <<>>
    /\ checkResultChannel = <<>>
    /\ deleteDone = {}
    /\ probes = 0
    /\ lastOp = [i \in MonitorIds |-> "none"]
    /\ notifW = IdleW
    /\ emitted = NoEmit
    /\ runs = [k \in Pairs |-> NoRun]
    /\ published = 0
    /\ now = StartHour * TicksPerHour
    /\ agg = [p \in Procs |-> IF p = "worker" THEN StartedWorker(now) ELSE IdleAgg]
    /\ aggHist = NoHist
    /\ dropped = {}
    /\ req = NoReq
    /\ shut = Running
    /\ monRows = <<>>
    /\ calls = [c \in Clients |-> IdleCall]
    /\ sched = NoSched
    /\ life = NewLife

\* no monitor has been added yet
NoMonitors ==
    /\ dbMon = [i \in MonitorIds |-> NoRow]
    /\ monitors = [i \in MonitorIds |-> NoMonitor]
    /\ tickers = [i \in MonitorIds |-> 0]
    /\ stopChans = [i \in MonitorIds |-> 0]
    /\ gor = [g \in GIds |-> FreeG]
    /\ chClosed = [g \in GIds |-> FALSE]
    /\ tkStopped = [g \in GIds |-> FALSE]

\* every monitor is active, its goroutine waiting in select
MonitorsRunning ==
    /\ dbMon = [i \in MonitorIds |-> [state |-> "live", active |-> 1, status |-> StatusUp]]
    /\ monitors = [i \in MonitorIds |->
                      [present |-> TRUE, active |-> 1, status |-> StatusPending]]
    /\ tickers = [i \in MonitorIds |-> i]
    /\ stopChans = [i \in MonitorIds |-> i]
    /\ gor = [g \in GIds |-> IF g \in MonitorIds THEN RunningG(g)
                              ELSE FreeG]
    /\ chClosed = [g \in GIds |-> FALSE]
    /\ tkStopped = [g \in GIds |-> FALSE]

\* the rules after NewService: every trigger rule has been reset to inactive
DefaultConfig == [monitor_name |-> StarName, on_status |-> "change", email |-> "op@x",
                  max_retries |-> 0, max_retries_recovery |-> 0]

DefaultRules == [r \in RuleIds |-> [active |-> FALSE, cfg |-> DefaultConfig]]

DefaultRetention == [raw_hours |-> 0, hourly_days |-> 0, daily_days |-> 0]

InitSched ==
    /\ InitService
    /\ NoMonitors
    /\ rules = DefaultRules
    /\ retention = DefaultRetention

InitNotif ==
    /\ InitService
    /\ NoMonitors
    /\ rules \in [RuleIds -> [active : {FALSE}, cfg : RuleConfigs]]
    /\ retention = DefaultRetention

InitAgg ==
    /\ InitService
    /\ MonitorsRunning
    /\ rules = DefaultRules
    /\ retention \in RetentionConfigs

NextSched ==
    \/ \E g \in GIds : Tick(g)
    \/ \E g \in GIds : SelectTick(g)
    \/ \E g \in GIds : SelectStop(g)
    \/ \E g \in GIds : CheckLoad(g)
    \/ \E g \in GIds : CheckInactive(g)
    \/ \E g \in GIds : ProbeDone(g)
    \/ \E g \in GIds : CheckUpdateRow(g)
    \/ \E g \in GIds : CheckPublish(g)
    \/ WriterRecv
    \/ WriterTick
    \/ NotifRecv
    \/ \E h \in HIds : AddBegin(h)
    \/ \E h \in HIds : EditBegin(h)
    \/ \E h \in HIds : ToggleBegin(h)
    \/ \E h \in HIds : HandSave(h)
    \/ \E h \in HIds : AddStart(h)
    \/ \E h \in HIds : ToggleSvc(h)
    \/ \E h \in HIds : EditSvc(h)
    \/ \E h \in HIds : EditRestart(h)
    \/ \E h \in HIds : DeleteBegin(h)
    \/ \E h \in HIds : DeleteStop(h)
    \/ \E h \in HIds : DeleteTiers(h)

SpecSched == InitSched /\ [][NextSched]_vars

NextNotif ==
    \/ PublishResult
    \/ NotifRecv
    \/ NotifRule
    \/ \E r \in RuleIds : ToggleNotification(r)
    \/ \E m \in MonitorIds : ResetNotificationStateByMonitor(m)

SpecNotif == InitNotif /\ [][NextNotif]_vars

NextAgg ==
    \/ FlushHeartbeats
    \/ ClockTick
    \/ WorkerPass
    \/ ForceAggregation
    \/ \E p \in Procs : AggregateHourlyBegin(p)
    \/ \E p \in Procs : AggregateHourlyCreate(p)
    \/ \E p \in Procs : AggregateDailyBegin(p)
    \/ \E p \in Procs : AggregateDailyCreate(p)
    \/ \E p \in Procs : CleanupAggregatedData(p)

SpecAgg == InitAgg /\ [][NextAgg]_vars

InitCalls ==
    /\ InitService
    /\ NoMonitors
    /\ rules = DefaultRules
    /\ retention = DefaultRetention

NextCalls ==
    \/ Return
    \/ AggregateHour
    \/ SaveMonitor
    \/ CheckDispatch
    \/ TieredQuery
    \/ ChartPoint
    \/ ChartSevenDays
    \/ ImportMonitorConfig
    \/ TestMonitor
    \/ StopMonitorTwice
    \/ ControlRequest
    \/ ExportImport
    \/ NewService

SpecCalls == InitCalls /\ [][NextCalls]_vars

SpecClose == InitCalls /\ [][NextClose]_vars

SpecLife == InitCalls /\ [][NextLife]_vars

SpecShutdown == InitCalls /\ [][NextShutdown]_vars

\* one heartbeat of monitor 1, UP after 1 ms, stored at tick t
StoredHeartbeat(t) == [monitor_id |-> 1, time |-> t, status |-> StatusUp, duration |-> 1]

\* the process is started again in hour 23 on the store an earlier run left: the raw
\* rows of hours 22 and 23 and the hourly row of hour 22, no daily row yet
InitRestart ==
    /\ MonitorsRunning
    /\ rules = DefaultRules
    /\ retention = DefaultRetention
    /\ stoppedMonitors = {}
    /\ notificationStates = [k \in Pairs |-> NoState]
    /\ hand = [h \in HIds |-> IdleH]
    /\ hbChan = <<>>
    /\ batch = <<>>
    /\ heartbeats = <<StoredHeartbeat((StartHour - 1) * TicksPerHour),
                      StoredHeartbeat(StartHour * TicksPerHour)>>
    /\ hourly = <<HourlyRow(1, (StartHour - 1) * TicksPerHour,
                            HourlyResult(<<StoredHeartbeat((StartHour - 1) * TicksPerHour)>>))>>
    /\ daily = <<>>
    /\ checkResultChannel = <<>>
    /\ deleteDone = {}
    /\ probes = 0
    /\ lastOp = [i \in MonitorIds |-> "none"]
    /\ notifW = IdleW
    /\ emitted = NoEmit
    /\ runs = [k \in Pairs |-> NoRun]
    /\ published = 0
    /\ now = StartHour * TicksPerHour
    /\ agg = [p \in Procs |-> IF p = "worker" THEN StartedWorker(now) ELSE IdleAgg]
    /\ aggHist = NoHist
    /\ dropped = {}
    /\ req = NoReq
    /\ shut = Running
    /\ monRows = <<>>
    /\ calls = [c \in Clients |-> IdleCall]
    /\ sched = NoSched
    /\ life = NewLife

\* the hourly worker alone, while heartbeats are written
NextRestart ==
    \/ FlushHeartbeats
    \/ ClockTick
    \/ WorkerPass
    \/ AggregateHourlyBegin("worker")
    \/ AggregateHourlyCreate("worker")
    \/ AggregateDailyBegin("worker")
    \/ AggregateDailyCreate("worker")
    \/ CleanupAggregatedData("worker")

SpecRestart == InitRestart /\ [][NextRestart]_vars

SpecNames == InitCalls /\ [][NextNames]_vars

----------------------------------------------------------------------------
(* Trigger notifications: hysteresis, arming, on_status                    *)

Max(a, b) == IF a >= b THEN a ELSE b

\* length of the run of equal results that ends at position i of seq
RECURSIVE RunLen(_, _)
RunLen(seq, i) == IF i = 1 \/ seq[i - 1] # seq[i] THEN 1 ELSE 1 + RunLen(seq, i - 1)

\* the threshold a run of status st has to reach
Threshold(cfg, st) == IF st = StatusDown THEN Max(cfg.max_retries, 1)
                      ELSE Max(cfg.max_retries_recovery, 1)

\* last_sent_status after the first i results that follow the arming observation:
\* it moves to the status of a run when the run reaches its threshold
RECURSIVE LastSent(_, _, _, _)
LastSent(seq, arm, cfg, i) ==
    IF i = 0 THEN arm
    ELSE LET prev == LastSent(seq, arm, cfg, i - 1) IN
         IF RunLen(seq, i) = Threshold(cfg, seq[i]) /\ prev # seq[i] THEN seq[i] ELSE prev

\* the positions at which a rule with on_status=change is to notify
ChangePoints(seq, arm, cfg) ==
    {i \in 1..Len(seq) : /\ RunLen(seq, i) = Threshold(cfg, seq[i])
                         /\ LastSent(seq, arm, cfg, i - 1) # seq[i]}

FlapScenario == <<StatusDown, StatusDown, StatusDown, StatusUp, StatusUp, StatusDown>>

C3_Hysteresis(k) ==
    /\ runs[k].mails = ChangePoints(runs[k].seq, runs[k].arm, rules[k[1]].cfg)
    /\ ( /\ rules[k[1]].cfg.max_retries = 3
         /\ rules[k[1]].cfg.max_retries_recovery = 2
         /\ runs[k].arm = StatusUp
         /\ runs[k].seq = FlapScenario ) => runs[k].mails = {3, 5}

\* C3 as stated: for a rule with on_status=change, the results processed after
\* the arming observation are notified exactly at the positions where a run of
\* DOWN (UP) results reaches max(max_retries,1) (max(max_retries_recovery,1))
\* while last_sent_status is not DOWN (UP); with thresholds 3 and 2 the sequence
\* UP, DOWN, DOWN, DOWN, UP, UP, DOWN notifies at the third DOWN and the second UP.
C3_Original ==
    \A k \in Pairs :
        (runs[k].armed /\ rules[k[1]].cfg.on_status = "change") => C3_Hysteresis(k)

\* C3 amended: the same, for a rule that names a recipient (email is not empty).
C3_HysteresisWithRecipient ==
    \A k \in Pairs :
        ( /\ runs[k].armed
          /\ rules[k[1]].cfg.on_status = "change"
          /\ rules[k[1]].cfg.email # "" ) => C3_Hysteresis(k)

C3_Witness ==
    \E k \in Pairs :
        /\ runs[k].armed /\ runs[k].arm = StatusUp
        /\ rules[k[1]].cfg.on_status = "change" /\ rules[k[1]].cfg.email # ""
        /\ rules[k[1]].cfg.max_retries = 3 /\ rules[k[1]].cfg.max_retries_recovery = 2
        /\ runs[k].seq = FlapScenario
        /\ runs[k].mails = {3, 5}

\* the worker is about to process its current result for the pair k
Processing(k) ==
    /\ notifW.pc = "rules"
    /\ Head(notifW.todo).id = k[1]
    /\ notifW.monitor_id = k[2]
    /\ NameMatches(Head(notifW.todo).cfg, k[2])
    /\ notifW' # notifW

\* C4: the first result processed for a pair without state creates the state
\* with last_sent_status = the result's status and both counters 0, and sends
\* no notification, whatever the status and on_status are.
C4_FirstObservationArms ==
    [][\A k \in Pairs :
          (Processing(k) /\ ~notificationStates[k].present)
          => /\ notificationStates'[k].present
             /\ notificationStates'[k].last = notifW.status
             /\ notificationStates'[k].cf = 0
             /\ notificationStates'[k].cs = 0
             /\ ~emitted'.sent]_vars

C4_Witness ==
    \E k \in Pairs :
        /\ runs[k].armed /\ runs[k].seq = <<>> /\ runs[k].arm = StatusDown
        /\ notificationStates[k] = [present |-> TRUE, cf |-> 0, cs |-> 0,
                                    last |-> StatusDown]
        /\ rules[k[1]].cfg.on_status = "down" /\ rules[k[1]].cfg.email # ""
        /\ ~emitted.sent

\* the hard status the worker computes for the result it is processing
HardStatus(k) ==
    NewStatusToSend(Counted(notificationStates[k], notifW.status),
                    Head(notifW.todo).cfg, notifW.status)

OnStatusMatches(cfg, hard) ==
    \/ cfg.on_status = "change"
    \/ cfg.on_status = "down" /\ hard = StatusDown
    \/ cfg.on_status = "up" /\ hard = StatusUp

C5_Transition(k) ==
    IF HardStatus(k) # notificationStates[k].last
    THEN /\ notificationStates'[k].last = HardStatus(k)
         /\ emitted'.sent <=> OnStatusMatches(Head(notifW.todo).cfg, HardStatus(k))
    ELSE /\ ~emitted'.sent
         /\ notificationStates'[k].last = notificationStates[k].last

\* C5 as stated: when the hard status differs from last_sent_status, the latter
\* is set to the hard status and a notification is sent iff on_status is change,
\* or down and the hard status is DOWN, or up and the hard status is UP; when
\* they are equal nothing is sent and last_sent_status is unchanged.
C5_Original ==
    [][\A k \in Pairs :
          (Processing(k) /\ notificationStates[k].present) => C5_Transition(k)]_vars

\* C5 amended: the same, for a rule that names a recipient (email is not empty).
C5_OnStatusWithRecipient ==
    [][\A k \in Pairs :
          ( /\ Processing(k)
            /\ notificationStates[k].present
            /\ Head(notifW.todo).cfg.email # "" ) => C5_Transition(k)]_vars

\* a rule with on_status=down has moved its hard status to UP without a mail,
\* after it had moved it to DOWN with one
C5_Witness ==
    \E k \in Pairs :
        /\ rules[k[1]].cfg.on_status = "down" /\ rules[k[1]].cfg.email # ""
        /\ runs[k].armed /\ runs[k].mails # {}
        /\ Len(runs[k].seq) \notin runs[k].mails
        /\ Len(runs[k].seq) > 1
        /\ notificationStates[k].present
        /\ notificationStates[k].last = StatusUp
        /\ runs[k].seq[Len(runs[k].seq)] = StatusUp
        /\ notificationStates[k].cs = Max(rules[k[1]].cfg.max_retries_recovery, 1)

----------------------------------------------------------------------------
(* Scheduler: probes of one monitor, start against a late Check, delete    *)

\* goroutine g is executing Check: the row is loaded, the publish is not yet done
InCheck(g) == gor[g].pc \in {"loaded", "probing", "probed", "written"}

\* no goroutine of monitor id is in, or about to enter, Check
NoCheckInFlight(id) == \A g \in GIds : gor[g].mon = id => gor[g].pc \notin CheckPcs

HandlersIdle == \A h \in HIds : hand[h].pc = "idle"

\* C1: at most one Check of a monitor id is executing at any time, under any
\* interleaving of the control operations and ticks, including a restart while
\* the goroutine of the previous ticker is still inside Check.
C1_OneCheckPerMonitor ==
    \A id \in MonitorIds : Cardinality({g \in GIds : gor[g].mon = id /\ InCheck(g)}) <= 1

\* C2: when the persisted active flag is 1 and the last control operation was a
\* start, then once the in-flight Checks have finished the monitor has a running
\* ticker: a Check that loaded active = 0 cannot stop the ticker of a later start.
C2_StartedKeepsTicker ==
    \A id \in MonitorIds :
        ( /\ dbMon[id].state = "live" /\ dbMon[id].active = 1
          /\ lastOp[id] = "start"
          /\ HandlersIdle
          /\ NoCheckInFlight(id) )
        => /\ tickers[id] # 0
           /\ ~tkStopped[tickers[id]]
           /\ ~chClosed[tickers[id]]

\* rows of monitor id in a table, a channel or a batch
RowsOf(t, id) == SelectSeq(t, LAMBDA r : r.monitor_id = id)

\* the system has quiesced for id: its Checks have finished, the buffer is flushed
Quiesced(id) ==
    /\ NoCheckInFlight(id)
    /\ RowsOf(hbChan, id) = <<>>
    /\ RowsOf(batch, id) = <<>>

\* C6: after a delete of id has completed (socket or REST) and the system has
\* quiesced, no row of id remains in the raw, the hourly or the daily table.
C6_DeleteRemovesAllTiers ==
    \A id \in deleteDone :
        Quiesced(id) => /\ RowsOf(heartbeats, id) = <<>>
                        /\ RowsOf(hourly, id) = <<>>
                        /\ RowsOf(daily, id) = <<>>

----------------------------------------------------------------------------
(* Aggregator: one row per bucket, ForceAggregation twice, retry, row sums *)

\* no two rows of a table with the same monitor and the same bucket
NoDuplicate(t, f) ==
    \A i, j \in DOMAIN t :
        (i # j /\ t[i].monitor_id = t[j].monitor_id) => t[i][f] # t[j][f]

\* C7: whatever the interleaving of worker passes and ForceAggregation calls,
\* there is at most one hourly row per (monitor, hour) and at most one daily row
\* per (monitor, date).
C7_OneRowPerBucket == NoDuplicate(hourly, "hour") /\ NoDuplicate(daily, "date")

\* the ForceAggregation call in hand follows another one made in the same hour,
\* no heartbeat has been stored since that one began, and the hour has not ended
SecondCall ==
    /\ aggHist.call.second
    /\ aggHist.call.quiet
    /\ TruncateHour(now) = aggHist.call.hour

NoOpCall ==
    /\ aggHist.call.created = {}
    /\ \A c \in aggHist.call.first : RowPresent(c)

HourlyStageDone == agg["worker"].pc \in {"daily", "dailyCreate", "cleanup", "idle"}

\* C9: after a failed insert of the hourly row of (m, h), the next hourly pass
\* attempts (m, h) again: once that pass is through its hourly stage (inserts
\* succeed, the raw heartbeats of h are retained), the row of (m, h) exists.
C9_FailedSlotRetried ==
    \A f \in aggHist.failed :
        ( /\ aggHist.passNo = f.pass + 1
          /\ HourlyStageDone
          /\ RawWindow(f.monitor_id, f.hour, f.hour + TicksPerHour) # <<>> )
        => HourlyCount(f.monitor_id, f.hour) > 0

\* the sum of field f over the rows of t with index in I
RECURSIVE IndexSum(_, _, _)
IndexSum(t, f, I) ==
    IF I = {} THEN 0
    ELSE LET i == CHOOSE x \in I : TRUE IN t[i][f] + IndexSum(t, f, I \ {i})

UpIndexes(t) == {i \in DOMAIN t : t[i].status = StatusUp}

RowSound(r) ==
    /\ r.up_count + r.down_count <= r.total_count
    /\ r.total_count > 0
    /\ r.avg_duration = IF r.up_count > 0 THEN r.sum_duration \div r.up_count ELSE 0

\* C10: every hourly and every daily row has up + down <= total, total > 0 and
\* avg = sum / up (integer division) when up > 0, else 0; the sum of an hourly
\* row is the sum of the durations of the UP samples of its hour only, the sum
\* of a daily row is the sum of the sums of the hourly rows of its day.
C10_RowsSound ==
    [][ /\ \A i \in DOMAIN hourly' : RowSound(hourly'[i])
        /\ \A i \in DOMAIN daily' : RowSound(daily'[i])
        /\ Len(hourly') > Len(hourly) =>
              LET r == hourly'[Len(hourly')]
                  raw == RawWindow(r.monitor_id, r.hour, r.hour + TicksPerHour)
              IN /\ r.sum_duration = IndexSum(raw, "duration", UpIndexes(raw))
                 /\ r.up_count = Cardinality(UpIndexes(raw))
                 /\ r.total_count = Len(raw)
        /\ Len(daily') > Len(daily) =>
              LET r == daily'[Len(daily')]
                  hrs == HourlyWindow(r.monitor_id, r.date, r.date + TicksPerDay)
              IN /\ r.sum_duration = IndexSum(hrs, "sum_duration", DOMAIN hrs)
                 /\ r.up_count = IndexSum(hrs, "up_count", DOMAIN hrs)
      ]_vars

C10_Witness ==
    /\ \E i \in DOMAIN hourly : /\ hourly[i].up_count = 2
                                /\ hourly[i].sum_duration = 3
                                /\ hourly[i].avg_duration = 1
    /\ \E j \in DOMAIN daily : /\ daily[j].up_count = 2
                               /\ daily[j].sum_duration = 3
                               /\ daily[j].avg_duration = 1

----------------------------------------------------------------------------
(* Stored uptime of an hourly row                                          *)

\* a / b rounded to the nearest integer
Round(a, b) == (2 * a + b) \div (2 * b)

\* C11: the uptime stored in an hourly row is up_count * 10000 / total_count
\* rounded to the nearest integer, for all up_count <= total_count.
C11_UptimeRounded ==
    req.op = "aggregateHour" =>
        req.row.uptime = Round(req.row.up_count * 10000, req.row.total_count)


\* the heartbeats in the order in which Check handed them to the write buffer:
\* the rows written, then the writer's batch, then the buffer
Enqueued == heartbeats \o batch \o hbChan

\* heartbeat a carries an earlier time than heartbeat b
Earlier(a, b) == a.time < b.time \/ (a.time = b.time /\ a.at < b.at)

\* C15: for any monitor, the heartbeats handed to the write buffer have strictly
\* increasing times in the order in which they were enqueued.
C15_TimesIncrease ==
    \A i, j \in DOMAIN Enqueued :
        (i < j /\ Enqueued[i].monitor_id = Enqueued[j].monitor_id)
            => Earlier(Enqueued[i], Enqueued[j])

\* a send that waits for room would leave Check where it is when the channel is full;
\* C12 says that no state holds Check back, and that what finds no room is dropped
CheckCompletes(g) ==
    /\ gor'[g].pc = "select"
    /\ Len(hbChan) >= HeartbeatBufferSize => hbChan' = hbChan
    /\ Len(checkResultChannel) >= CheckResultCap => checkResultChannel' = checkResultChannel
    /\ Len(hbChan') <= HeartbeatBufferSize
    /\ Len(checkResultChannel') <= CheckResultCap

\* C12: Check never blocks on a full channel: with the heartbeat buffer or the result
\* channel full, the step that publishes is still enabled, it drops what finds no room,
\* and Check runs to completion whatever the writer and the worker have consumed.
C12_CheckNeverBlocks ==
    /\ [](\A g \in GIds : gor[g].pc = "written" => ENABLED CheckPublish(g))
    /\ [][\A g \in GIds : gor[g].pc = "written" /\ gor'[g].pc # "written" => CheckCompletes(g)]_vars

\* Check has run to completion after dropping a heartbeat and a result
C12_Witness ==
    /\ dropped = {"heartbeat", "result"}
    /\ \A g \in GIds : gor[g].pc \notin {"probing", "probed", "written"}

\* C13: an interval below 20 seconds is never observable: for a monitor created or
\* changed through add, edit, REST create or importMonitorConfig, the ticker that
\* StartMonitor starts has a period of at least 20 s and the persisted row the control
\* surface returns has interval >= 20.
C13_IntervalAtLeast20 ==
    req.op = "saveMonitor" =>
        /\ req.ticker.started => req.ticker.period >= 20
        /\ req.listed >= 20

\* the check that req records ended in a hard failure
HardFailure ==
    \/ req.probe = "http" /\ req.result.st = StatusDown /\ req.result.msg \in HardFailureMessages
    \/ req.probe = "dns" /\ req.result.st = StatusDown

\* C14: every heartbeat that Check writes for a hard failure (an HTTP probe DOWN with
\* Timeout, Connection Refused, DNS Resolution Failed or TLS Error, or a DNS probe DOWN)
\* has duration 0, for every type value that Check dispatches to the HTTP or DNS probe.
C14_HardFailureZero ==
    (req.op = "check" /\ HardFailure) => req.heartbeat.duration = 0

\* the tier the window W (in half hours) selects, raw_hours and hourly_days defaulting
\* to 24 and 7 when configured <= 0
TierOfWindow(w, cfg) ==
    LET rawHours == IF cfg.raw_hours <= 0 THEN 24 ELSE cfg.raw_hours
        hourlyDays == IF cfg.hourly_days <= 0 THEN 7 ELSE cfg.hourly_days
    IN IF w <= 2 * rawHours THEN "raw"
       ELSE IF w <= 2 * hourlyDays * 24 THEN "hourly"
       ELSE "daily"

\* C16: each tiered query reads the raw tier when W <= raw_hours, the hourly tier when
\* raw_hours < W <= hourly_days * 24h, and the daily tier when W > hourly_days * 24h.
C16_TierOfWindow ==
    req.op = "tieredQuery" => TierOfWindow(req.window, req.cfg) \in req.tiers

\* the heartbeats of monitor m recorded inside the window of w hours
Recorded(m, w) ==
    SelectSeq(heartbeats, LAMBDA r : r.monitor_id = m /\ r.time >= now - w * TicksPerHour)

\* C17: for an uptime query on the aggregate branch (W > raw_hours) every heartbeat of
\* the monitor recorded inside the window is counted exactly once, at every moment the
\* query can run, the time between the end of an hour and its roll-up included.
C17_CountedOnce ==
    \A m \in MonitorIds :
        LET w == QueryRawHours(retention) + 1
            counts == GetUptimeStats(m, w)
        IN /\ counts.total = Len(Recorded(m, w))
           /\ counts.up = CountStatus(Recorded(m, w), StatusUp)

\* C18: a chart point (24h or 7d view, the live point included) has status -1 if and
\* only if its bucket contains no sample at all, neither an hourly row nor a raw
\* heartbeat; an all-DOWN bucket is never rendered as status -1 with uptime 100.
C18_NoDataIffEmpty ==
    req.op = "chartPoint" =>
        (req.point.status = -1 <=> (req.rows = <<>> /\ req.hbs = <<>>))

\* C19: in the 7d chart the 28 points cover the last 168 hours without gap or overlap:
\* at every hour of day, each hourly row with hour in [current_hour - 167h, current_hour)
\* contributes to exactly one of the 28 points.
C19_ExactlyOnePoint ==
    req.op = "chart7d" => Cardinality(req.points) = 1

\* what C20 states for a list: in order, an item with name and url is skipped if and
\* only if a monitor of its name exists at that moment; every other such item is
\* inserted, and started if and only if its active is 1
RECURSIVE Stated(_, _)
Stated(items, acc) ==
    IF items = <<>> THEN acc
    ELSE LET m == Head(items)
         IN IF m.name = "" \/ m.url = "" THEN Stated(Tail(items), acc)
            ELSE IF m.name \in acc.store
            THEN Stated(Tail(items), [acc EXCEPT !.skipped = @ + 1,
                                                 !.skippedNames = Append(@, m.name)])
            ELSE Stated(Tail(items),
                        [acc EXCEPT !.store = @ \cup {m.name},
                                    !.imported = @ + 1,
                                    !.started = IF m.active = 1 THEN Append(@, m.name)
                                                ELSE @])

\* no Create of the import failed
NoCreateError == \A i \in DOMAIN req.items : ~req.items[i].err

\* C20: importMonitorConfig processes the list in order; an item with name and url is
\* skipped (counted in skipped, appended to skippedNames) iff a monitor with that name
\* exists at that moment, one inserted by an earlier item included; every other such
\* item is inserted and is started iff its active is 1; [A, B, A] into a store that
\* contains A yields imported 1, skipped 2, skippedNames [A, A] and only B scheduled.
C20_ImportInOrder ==
    (req.op = "import" /\ NoCreateError) =>
        LET s == Stated(req.items, ImportStart(req.store))
        IN /\ req.ack.imported = s.imported
           /\ req.ack.skipped = s.skipped
           /\ req.ack.skippedNames = s.skippedNames
           /\ req.started = s.started

\* the file fields of the test request whose path is absolute or contains ".."
UnsafeFields ==
    {i \in DOMAIN req.fields :
        /\ req.fields[i].type = "file"
        /\ IsAbs(req.fields[i].value) \/ ContainsDotDot(req.fields[i].value)}

\* C21: testMonitor on an HTTP monitor whose form data contains a file field with an
\* absolute path or a path containing ".." answers ok = false with the message
\* "Invalid file path: <value> ...", opens no file and sends no network request.
C21_UnsafePathRejected ==
    (req.op = "testMonitor" /\ req.type = "http" /\ UnsafeFields # {}) =>
        /\ req.ack.ok = FALSE
        /\ req.ack.msg.kind = "Invalid file path"
        /\ \E i \in UnsafeFields : req.ack.msg.value = req.fields[i].value
        /\ req.opened = {}
        /\ ~req.network

\* goroutine g belongs to a ticker that an edit has replaced: its stop channel is
\* closed, its monitor has a ticker of another goroutine, and no handler is in flight
Replaced(g) ==
    /\ gor[g].pc # "free"
    /\ chClosed[g]
    /\ tickers[gor[g].mon] \notin {0, g}
    /\ \A h \in HIds : hand[h].pc = "idle"

\* C23: after an edit of a running monitor has completed (StopMonitor followed by
\* StartMonitor), the goroutine of the previous ticker starts no further Check.
C23_OldTickerSilent ==
    [][\A g \in GIds : Replaced(g) => ~(gor[g].pc = "select" /\ gor'[g].pc = "check")]_vars

\* C24: in a monitor's goroutine, when its stop channel has been closed and a tick is
\* pending at the same time, the goroutine exits without running another Check.
C24_StopBeforeTick ==
    [][\A g \in GIds :
          (gor[g].pc = "select" /\ chClosed[g] /\ gor[g].tick /\ gor'[g] # gor[g])
              => gor'[g].pc = "free"]_vars

\* C27: Check changes only the status, message and last_check columns of its row: the
\* step of Check that writes the row leaves every other column as it finds it, also
\* when an edit or a toggle has changed one since Check loaded the row.
C27_CheckWritesStatusOnly ==
    [][\A g \in GIds :
          (gor[g].pc = "probed" /\ gor'[g].pc = "written")
              => \A id \in MonitorIds : /\ dbMon'[id].active = dbMon[id].active
                                        /\ dbMon'[id].state = dbMon[id].state]_vars

\* a Check has written its row after the active column changed under it
C27_Witness ==
    \E g \in GIds :
        /\ gor[g].pc = "written"
        /\ dbMon[gor[g].mon].state = "live"
        /\ dbMon[gor[g].mon].active # gor[g].act
        /\ dbMon[gor[g].mon].status = gor[g].st

\* C28: the status, message and last_check columns of a monitor row are changed only
\* by Check: the save of an edit or of a toggleActive never changes the status.
C28_HandlersKeepStatus ==
    [][\A h \in HIds :
          (hand[h].pc = "save" /\ hand'[h].pc = "svc")
              => dbMon'[hand[h].id].status = dbMon[hand[h].id].status]_vars

\* C25: once the writer has returned on the done signal and Close has closed the
\* store, every heartbeat the buffer accepted before Close was called is a row of
\* the heartbeats table
C25_AcceptedWritten ==
    (shut.pc = "closed" /\ shut.writer = "returned") =>
        \A i \in DOMAIN shut.accepted : \E j \in DOMAIN heartbeats : heartbeats[j] = shut.accepted[i]

\* the keys '{rule}_{id}' of one monitor
KeysOfMonitor(id) == {StateKey(r, id) : r \in KeyRules}

C30_WritesNeedAdmin ==
    (req.op = "control" /\ req.writes # {}) => (req.authed \/ req.token = "valid")

\* another monitor that is not deleted has this name
UsedByOther(name, id) ==
    \E i \in DOMAIN monRows : i # id /\ ~monRows[i].deleted /\ monRows[i].name = name

\* C22: an add or edit request with an empty name, or whose name validation finds
\* used by another monitor, is answered with the rejection, and no step of a
\* request that is rejected changes a monitor row, a ticker or a NotificationState
C22_RejectedChangesNothing ==
    [][\A c \in Clients :
          LET rejected == /\ calls'[c].pc = "done"
                          /\ calls'[c].ack \in {"Name is required", "exists"}
              validated == /\ calls'[c] # calls[c]
                           /\ calls'[c].op \in {"add", "edit"}
                           /\ \/ calls[c].pc = "idle" /\ calls'[c].name = ""
                              \/ /\ calls[c].pc = "count"
                                 /\ UsedByOther(calls[c].name, calls[c].id)
          IN /\ validated => rejected
             /\ (calls'[c] # calls[c] /\ rejected) => UNCHANGED <<monRows, sched>>]_vars

\* an edit to the name of another monitor has been rejected while monitors run
C22_Witness ==
    \E c \in Clients :
        /\ calls[c].op = "edit"
        /\ calls[c].pc = "done"
        /\ calls[c].ack = "exists"
        /\ calls[c].id \in sched.tickers
        /\ calls[c].id \in sched.states

\* C29: no two monitor rows that are not deleted have the same name
C29_NamesUnique ==
    \A i, j \in DOMAIN monRows :
        (i # j /\ ~monRows[i].deleted /\ ~monRows[j].deleted)
            => monRows[i].name # monRows[j].name

\* C31: a monitor imported from an exported list is scheduled exactly if it was
\* active in that list, and keeps its type, url, interval and probe parameters
C31_ImportKeepsActiveSet ==
    req.op = "exportImport" =>
        \A i \in DOMAIN req.exported :
            /\ req.imported[i].scheduled <=> (req.exported[i].active = 1)
            /\ req.imported[i].type = req.exported[i].type
            /\ req.imported[i].url = req.exported[i].url
            /\ req.imported[i].interval = req.exported[i].interval
            /\ req.imported[i].timeout = req.exported[i].timeout
            /\ req.imported[i].follow_redirects = req.exported[i].follow_redirects

LastHourOf(d) == d + (HoursPerDay - 1) * TicksPerHour

\* C33: while no insert has failed, a pass that creates the daily row of monitor m
\* for day d has the hourly row of hour 23 of d to aggregate whenever m has raw
\* heartbeats in that hour
C33_DailyIncludesLastHour ==
    [][(Len(daily') = Len(daily) + 1 /\ aggHist.failures = 0) =>
          LET row == daily'[Len(daily')] IN
          (\E i \in DOMAIN heartbeats :
                /\ heartbeats[i].monitor_id = row.monitor_id
                /\ TruncateHour(heartbeats[i].time) = LastHourOf(row.date))
            => \E k \in DOMAIN hourly :
                  /\ hourly[k].monitor_id = row.monitor_id
                  /\ hourly[k].hour = LastHourOf(row.date)]_vars

\* C34: no stop channel of a monitor and not the worker's stop channel is closed twice
C34_NoDoubleClose ==
    /\ \A c \in DOMAIN life.closes : life.closes[c] <= 1
    /\ life.workerCloses <= 1

\* C40: tickers and stopChans have the same keys, all of them keys of monitors whose
\* monitor is active in memory and none of them marked stopped; so HealthCheck
\* reports no more active monitors than monitors
C40_MapsAgree ==
    /\ life.tickers = {i \in LifeIds : life.stopChans[i] # 0}
    /\ \A i \in life.tickers :
          /\ life.monitors[i] = "active"
          /\ i \notin life.stoppedMonitors
    /\ HealthCheck.active_monitors <= HealthCheck.total_monitors

\* one monitor runs, the other is kept inactive in memory after a restart of both
C40_Witness ==
    /\ \E i \in life.tickers : life.closes[life.stopChans[i]] = 0
    /\ \E i \in LifeIds : life.monitors[i] = "inactive"
    /\ \E c \in DOMAIN life.closes : life.closes[c] = 1
    /\ HealthCheck.active_monitors < HealthCheck.total_monitors

(* C35: every trigger notification the worker emits carries as old status the
   last_sent_status its (rule, monitor) pair held before the transition, and so
   an old status that differs from the new one. *)
C35_OldStatusIsPrevious ==
    [][(notifW.pc = "rules" /\ emitted'.sent)
          => /\ emitted'.old =
                   notificationStates[<<emitted'.rule, emitted'.monitor>>].last
             /\ emitted'.old # emitted'.new]_vars

(* C36: once FlushHeartbeatBuffer has closed done and unset the buffer pointer, the
   writer leaves through its done branch: it never reads the buffer through the
   unset pointer, also when a batch flush was under way at that moment. *)
C36_WriterLeavesThroughDone == shut.writer # "panicked"

(* C38: a daily report built when a Check of a monitor has just completed shows,
   for that monitor if it lists it, the status that Check wrote, and counts it
   in the up and down totals accordingly. *)
C38_ReportShowsLastCheck ==
    [][\A g \in GIds :
          (gor[g].pc = "written" /\ gor'[g].pc = "select")
             => LET r == sendReport(monitors') IN
                gor[g].mon \in DOMAIN r.list
                   => r.list[gor[g].mon] = StatusStr(gor[g].st)]_vars

----------------------------------------------------------------------------
(* Deleting a monitor whose checks feed the notification worker            *)

\* the service running its monitors; the operator enables trigger rules afterwards
InitDelete ==
    /\ InitService
    /\ MonitorsRunning
    /\ rules = DefaultRules
    /\ retention = DefaultRetention

NextDelete ==
    \/ \E g \in GIds : Tick(g)
    \/ \E g \in GIds : SelectTick(g)
    \/ \E g \in GIds : SelectStop(g)
    \/ \E g \in GIds : CheckLoad(g)
    \/ \E g \in GIds : ProbeDone(g)
    \/ \E g \in GIds : CheckUpdateRow(g)
    \/ \E g \in GIds : CheckPublish(g)
    \/ NotifRecv
    \/ NotifRule
    \/ \E r \in RuleIds : ToggleNotification(r)
    \/ \E h \in HIds : DeleteBegin(h)
    \/ \E h \in HIds : DeleteStop(h)
    \/ \E h \in HIds : DeleteTiers(h)

SpecDelete == InitDelete /\ [][NextDelete]_vars

\* nothing of monitor id is left to run: no Check in flight, no result queued, the
\* worker not at work on one
Drained(id) ==
    /\ \A g \in GIds : gor[g].mon = id => gor[g].pc \notin CheckPcs
    /\ \A n \in 1..Len(checkResultChannel) : checkResultChannel[n].monitor_id # id
    /\ notifW.pc = "rules" => notifW.monitor_id # id

(* C39: once the delete handler's StopMonitor(id) has returned and the worker has
   consumed every CheckResult queued for that monitor, notificationStates holds
   no entry whose key ends in _{id}. *)
C39_NoStateAfterDrain ==
    \A id \in MonitorIds :
       (id \in deleteDone /\ id \in stoppedMonitors /\ Drained(id))
          => \A k \in Pairs : k[2] = id => ~notificationStates[k].present

----------------------------------------------------------------------------
(* The write buffer against the hourly aggregation                         *)

\* checks hand their heartbeats to AddHeartbeat, the writer flushes them, the clock
\* advances and the aggregation worker makes its passes
NextBuffer ==
    \/ AcceptHeartbeat
    \/ WriterRecv
    \/ WriterTick
    \/ ClockTick
    \/ WorkerPass
    \/ AggregateHourlyBegin("worker")
    \/ AggregateHourlyCreate("worker")
    \/ AggregateDailyBegin("worker")
    \/ AggregateDailyCreate("worker")
    \/ CleanupAggregatedData("worker")

SpecBuffer == InitDelete /\ [][NextBuffer]_vars

\* the heartbeats of monitor m with time in [h, h + 1h) that AddHeartbeat accepted
AcceptedIn(m, h) ==
    {i \in 1..Len(shut.accepted) :
        /\ shut.accepted[i].monitor_id = m
        /\ shut.accepted[i].time >= h
        /\ shut.accepted[i].time < h + TicksPerHour}

(* C37: every hourly row (m, h) the aggregator has created counts in total_count
   all the heartbeats of m with time in [h, h + 1h) that AddHeartbeat accepted,
   those still in the write buffer when the raw table was read included. *)
C37_HourlyCountsAccepted ==
    \A n \in 1..Len(hourly) :
       hourly[n].total_count = Cardinality(AcceptedIn(hourly[n].monitor_id, hourly[n].hour))

====
